---- MODULE Spec2Model ----
(***************************************************************************)
(* A model of the Cloudflare worker of src/src/worker.ts: the retry helper *)
(* retryWithBackoff, the POST /api/generate-batch handler, the payload     *)
(* store (worker routes and the PayloadStore durable object), the image    *)
(* normalizer, fetchImageFromUrl, and the POST /api/combine-images and     *)
(* POST /api/generate handlers.                                            *)
(***************************************************************************)
EXTENDS Integers, Sequences, FiniteSets, TLC

VARIABLES
    rw,     \* the retryWithBackoff call in progress (locals and its history)
    b,      \* the POST /api/generate-batch request being handled
    store,  \* the rows of the PayloadStore table: record id -> data text
    cl,     \* per client, its /api/payloads request being handled
    ph,     \* history of the payload store: ids generated, written, answered
    cmb,    \* the POST /api/combine-images request being handled
    g,      \* the POST /api/generate request being handled
    f,      \* the request in the worker's fetch handler (routing and CORS)
    up,     \* per client, its /api/upload or /api/upload-generated request
    r2,     \* the clock and the keys written to the R2 bucket by uploads
    nz      \* one call of normalizeImageInput

\* ------------------------------------------------------------------ bounds

\* largest maxRetries handed to a stand-alone retryWithBackoff call
MaxRetriesIn == 4
\* an operation fails on its first 0..MaxFails invocations
MaxFails == 5

\* longest prompt list of a batch request
MaxPrompts == 2
\* the largest integer a batch request supplies as maxAttempts
MaxAttemptsIn == 6
\* the UUIDs crypto.randomUUID can return
MaxUuids == 2
\* the longest list of URLs or of file values a combine request carries
MaxImages == 2

\* ------------------------------------------------------------ JS constants

\* JavaScript values are records tagged by kind: the value of a variable that
\* was never assigned, null, numbers and strings (a string is its sequence
\* of characters)
Undefined == [kind |-> "undefined"]
Null == [kind |-> "null"]
Num(n) == [kind |-> "number", v |-> n]
Str(s) == [kind |-> "string", s |-> s]
Bool(v) == [kind |-> "boolean", v |-> v]

\* retryWithBackoff's default parameters
DefaultMaxRetries == 3
DefaultBaseDelay == 1000

\* ---------------------------------------------------------- retryWithBackoff

RECURSIVE Pow2(_)
\* Math.pow(2, n) for the non-negative integers n the loop produces
Pow2(n) == IF n <= 0 THEN 1 ELSE 2 * Pow2(n - 1)

\* a delay that grows by baseDelay per attempt instead of doubling
BackoffDelayLinear(baseDelay, attempt) == baseDelay * (attempt + 1)

\* const delay = baseDelay * Math.pow(2, attempt)
BackoffDelay(baseDelay, attempt) == baseDelay * Pow2(attempt)

\* a catch that never rethrows: every failure is followed by a wait
IsLastAttemptNever(attempt, maxRetries) == FALSE

\* if (attempt === maxRetries - 1) throw lastError
IsLastAttempt(attempt, maxRetries) == attempt = maxRetries - 1

\* the error thrown, and the value returned, by the n-th invocation of the
\* operation
OpError(n) == [kind |-> "operation", n |-> n]
OpResult(n, val) == [n |-> n, val |-> val]

\* the call before its first statement. The operation fails on its first k
\* invocations and resolves to one of vals on the next one, for some k of
\* the set fails
RetryCall(maxRetries, baseDelay, fails, vals) ==
    [pc |-> "idle", attempt |-> 0, maxRetries |-> maxRetries,
     baseDelay |-> baseDelay, fails |-> fails, vals |-> vals,
     lastError |-> Undefined, result |-> Undefined, thrown |-> Undefined,
     calls |-> 0, delays |-> <<>>]

\* no retryWithBackoff call is in progress
NoRetryCall == [RetryCall(0, 0, {}, {}) EXCEPT !.pc = "none"]

\* a loop that starts over where it should be left
RetryLoopTestRestart(r, a) ==
    IF a < r.maxRetries
    THEN [r EXCEPT !.pc = "attempting", !.attempt = a]
    ELSE [r EXCEPT !.pc = "idle", !.attempt = 0]

\* the loop test `attempt < maxRetries` for the value a of attempt: the body
\* is entered, or the loop is left and `throw lastError!` runs
RetryLoopTest(r, a) ==
    IF a < r.maxRetries
    THEN [r EXCEPT !.pc = "attempting", !.attempt = a]
    ELSE [r EXCEPT !.pc = "exhausted", !.attempt = a, !.thrown = r.lastError]

\* let lastError; for (let attempt = 0; attempt < maxRetries; ...)
RetryEnter ==
    /\ rw.pc = "idle"
    /\ rw' = RetryLoopTest(rw, 0)
    /\ UNCHANGED <<b, store, cl, ph, cmb, g, f, up, r2, nz>>

\* try { return await operation() } catch (error) { ... }: one invocation of
\* the operation, then the return, the rethrow or the start of the timer
RetryAttempt ==
    /\ rw.pc = "attempting"
    /\ UNCHANGED <<b, store, cl, ph, cmb, g, f, up, r2, nz>>
    /\ LET n == rw.calls + 1
           r == [rw EXCEPT !.calls = n]
           e == [r EXCEPT !.lastError = OpError(n)]
       IN \/ /\ n - 1 \in rw.fails
             /\ \E v \in rw.vals :
                    rw' = [r EXCEPT !.pc = "success", !.result = OpResult(n, v)]
          \/ /\ \E k \in rw.fails : k >= n
             /\ IF IsLastAttempt(rw.attempt, rw.maxRetries)
                THEN rw' = [e EXCEPT !.pc = "exhausted", !.thrown = OpError(n)]
                ELSE rw' = [e EXCEPT !.pc = "waiting",
                              !.delays = Append(rw.delays,
                                  BackoffDelay(rw.baseDelay, rw.attempt))]

\* the timer of `await new Promise(resolve => setTimeout(resolve, delay))`
\* fires; attempt++ and the loop test follow
RetryWake ==
    /\ rw.pc = "waiting"
    /\ rw' = RetryLoopTest(rw, rw.attempt + 1)
    /\ UNCHANGED <<b, store, cl, ph, cmb, g, f, up, r2, nz>>

RetryDone == rw.pc \in {"success", "exhausted"}

\* ------------------------------------------------- POST /api/generate-batch

\* the white space among the characters of a prompt
IsSpace(c) == c = " "

RECURSIVE TrimStart(_)
TrimStart(s) == IF s # <<>> /\ IsSpace(Head(s)) THEN TrimStart(Tail(s)) ELSE s
RECURSIVE TrimEnd(_)
TrimEnd(s) ==
    IF s # <<>> /\ IsSpace(s[Len(s)]) THEN TrimEnd(SubSeq(s, 1, Len(s) - 1)) ELSE s
\* String.prototype.trim
Trim(s) == TrimEnd(TrimStart(s))

\* a prompt check that forgets to trim
PromptIsUsableUntrimmed(p) == p.kind = "string" /\ p.s # <<>>

\* the negation of `typeof prompt !== 'string' || !prompt.trim()`
PromptIsUsable(p) == p.kind = "string" /\ Trim(p.s) # <<>>

MaxOf(x, y) == IF x >= y THEN x ELSE y
MinOf(x, y) == IF x <= y THEN x ELSE y

\* NaN, as a number below every attempt count: `attempt < NaN` is false
NaN == -1000

\* a clamp that forgets the lower limit
ClampAttemptsNoFloor(given) ==
    MinOf(5, IF given \in {Undefined, Null} THEN 3 ELSE given.v)

\* Math.max(1, Math.min(5, body.maxAttempts ?? 3)); Math.min and Math.max
\* give NaN for a string that is no number
ClampAttempts(given) ==
    IF given.kind = "string" THEN NaN
    ELSE MaxOf(1, MinOf(5, IF given \in {Undefined, Null} THEN 3 ELSE given.v))

\* the step of the linear delay between two attempts for one prompt
LinearStep == 500

\* a linear delay that does not grow with the attempt number
LinearDelayFlat(attempt) == LinearStep

\* setTimeout(r, 500 * attempt)
LinearDelay(attempt) == LinearStep * attempt

\* what ai.models.generateContent resolves to: no candidates, candidates
\* whose parts hold no inline data, or an image
ResponseKinds == {"nocandidates", "noimage", "image"}
Response(kind) == [kind |-> "response", has |-> kind]

\* `https://images.iwasthere.today/generated-...-${i}-....${ext}`
PublicUrl(i) == [kind |-> "url", prefix |-> "generated", i |-> i]

\* `Invalid prompt at index ${i}` (i is the zero-based index of the code)
InvalidPromptMsg(i) == [kind |-> "invalid", i |-> i - 1]
\* `Attempt ${attempt}/${maxAttempts} failed: ${msg}`
AttemptFailedMsg(attempt, maxAttempts, msg) ==
    [kind |-> "attempt", attempt |-> attempt, of |-> maxAttempts, msg |-> msg]

\* urls.filter(Boolean)
FilterBoolean(urls) == SelectSeq(urls, LAMBDA u : u # Null)

\* new Array(n).fill(null)
Nulls(n) == [k \in 1..n |-> Null]

\* what has been done for the prompt of the loop's current index: upstream
\* invocations, exponential delays inside retryWithBackoff, linear delays
NoEffects == [calls |-> 0, expWaits |-> 0, linWaits |-> <<>>]

\* no batch request. urls, errors, i, attempt and maxAttempts are the
\* handler's variables; attempts, touched, stored and lastSeen record, for
\* each index, the attempts made, whether an upstream call, a storage write
\* or a delay was made for it, whether a storage write for it succeeded,
\* and the last error message caught for it
NoBatch ==
    [pc |-> "none", req |-> Undefined, i |-> 0, attempt |-> 0, maxAttempts |-> 0,
     urls |-> <<>>, errors |-> <<>>, resp |-> Undefined,
     attempts |-> <<>>, touched |-> <<>>, stored |-> <<>>, lastSeen |-> <<>>,
     cur |-> NoEffects]

\* Response.json(body, { status })
JsonResponse(status, body) == [status |-> status, body |-> body]

\* a success test after the loop that looks at the errors instead of the urls
BatchRespondByErrors(st) ==
    IF \E k \in 1..Len(st.lastSeen) : st.lastSeen[k] # Null
    THEN [st EXCEPT !.pc = "done", !.resp = JsonResponse(502,
            [success |-> FALSE, urls |-> FilterBoolean(st.urls), errors |-> st.errors])]
    ELSE [st EXCEPT !.pc = "done", !.resp = JsonResponse(200,
            [success |-> TRUE, urls |-> st.urls])]

\* const successful = urls.filter(Boolean).length; the 502 or the 200 response
BatchRespond(st) ==
    IF Len(FilterBoolean(st.urls)) # Len(st.req.body.prompts)
    THEN [st EXCEPT !.pc = "done", !.resp = JsonResponse(502,
            [success |-> FALSE, urls |-> FilterBoolean(st.urls), errors |-> st.errors])]
    ELSE [st EXCEPT !.pc = "done", !.resp = JsonResponse(200,
            [success |-> TRUE, urls |-> st.urls])]

RECURSIVE BatchFor(_)
RECURSIVE BatchWhile(_)

\* the head of `for (let i = 0; ...)` with st.i the next index: the loop ends,
\* the prompt is marked invalid, or its while loop starts with attempt = 0
BatchFor(st) ==
    IF st.i > Len(st.req.body.prompts) THEN BatchRespond(st)
    ELSE IF ~PromptIsUsable(st.req.body.prompts[st.i])
    THEN BatchFor([st EXCEPT !.errors[st.i] = InvalidPromptMsg(st.i),
                             !.lastSeen[st.i] = InvalidPromptMsg(st.i),
                             !.i = st.i + 1])
    ELSE BatchWhile([st EXCEPT !.attempt = 0, !.cur = NoEffects])

\* a while test that does not look at urls[i]
BatchWhileAnyUrl(st) ==
    IF st.attempt < st.maxAttempts
    THEN [st EXCEPT !.pc = "call", !.attempt = st.attempt + 1,
                    !.attempts[st.i] = @ + 1]
    ELSE BatchFor([st EXCEPT !.i = st.i + 1])

\* the test of `while (attempt < maxAttempts && urls[i] === null)`: attempt++
\* and the call of retryWithBackoff, or i++ and the head of the for loop
BatchWhile(st) ==
    IF st.maxAttempts # NaN /\ st.attempt < st.maxAttempts /\ st.urls[st.i] = Null
    THEN [st EXCEPT !.pc = "call", !.attempt = st.attempt + 1,
                    !.attempts[st.i] = @ + 1]
    ELSE BatchFor([st EXCEPT !.i = st.i + 1])

\* a catch that goes on to the next prompt after any failed attempt
BatchCatchSkip(st, msg) ==
    LET e == AttemptFailedMsg(st.attempt, st.maxAttempts, msg)
    IN BatchFor([st EXCEPT !.errors[st.i] = e, !.lastSeen[st.i] = e,
                           !.i = st.i + 1])

\* a catch that leaves the for loop when the prompt has no attempt left
BatchCatchBreak(st, msg) ==
    LET e == AttemptFailedMsg(st.attempt, st.maxAttempts, msg)
        c == [st EXCEPT !.errors[st.i] = e, !.lastSeen[st.i] = e]
    IN IF st.attempt < st.maxAttempts
       THEN [c EXCEPT !.pc = "sleep",
                      !.touched[st.i] = TRUE,
                      !.cur.linWaits = Append(@, LinearDelay(st.attempt))]
       ELSE BatchRespond(c)

\* catch (e): errors[i] is set, and the linear delay starts unless this was
\* the last attempt
BatchCatch(st, msg) ==
    LET e == AttemptFailedMsg(st.attempt, st.maxAttempts, msg)
        c == [st EXCEPT !.errors[st.i] = e, !.lastSeen[st.i] = e]
    IN IF st.attempt < st.maxAttempts
       THEN [c EXCEPT !.pc = "sleep",
                      !.touched[st.i] = TRUE,
                      !.cur.linWaits = Append(@, LinearDelay(st.attempt))]
       ELSE BatchWhile(c)

\* the requests: a content type and a body. The body is no JSON text, the
\* JSON null, a JSON value without a usable prompts array, or an object
\* with a prompts array and maybe maxAttempts
BatchRequests ==
    LET PromptValues == {Str(<<>>), Str(<<" ">>), Str(<<" ", "a", " ">>), Num(7)}
        PromptLists == UNION {[1..n -> PromptValues] : n \in 0..MaxPrompts}
        AttemptsGiven == {Undefined, Null} \cup {Num(v) : v \in (-1)..MaxAttemptsIn}
        BatchBodies ==
            {[kind |-> k] : k \in {"malformed", "null", "noprompts", "promptsNotArray"}}
            \cup {[kind |-> "object", prompts |-> ps, maxAttempts |-> m] :
                    ps \in PromptLists, m \in AttemptsGiven}
    IN {[contentType |-> ct, body |-> [kind |-> "malformed"]] :
            ct \in {"multipart/form-data", ""}}
       \cup {[contentType |-> "application/json", body |-> body] : body \in BatchBodies}

\* the handler up to its first await on the upstream API: the content type,
\* request.json(), the prompts check, the clamp and the start of the loop.
\* A body that is no JSON, and reading .prompts of null, throw into the
\* catch of the handler, which answers 500
BatchReceive ==
    /\ b.pc = "start"
    /\ UNCHANGED <<rw, store, cl, ph, cmb, g, f, up, r2, nz>>
    /\ LET body == b.req.body
           n == IF body.kind = "object" THEN Len(body.prompts) ELSE 0
       IN IF b.req.contentType # "application/json"
          THEN b' = [b EXCEPT !.pc = "done", !.resp = JsonResponse(400,
                        [error |-> "Content-Type must be application/json"])]
          ELSE IF body.kind \in {"malformed", "null"}
          THEN b' = [b EXCEPT !.pc = "done", !.resp = JsonResponse(500,
                        [error |-> "error.message"])]
          ELSE IF body.kind # "object" \/ n = 0
          THEN b' = [b EXCEPT !.pc = "done", !.resp = JsonResponse(400,
                        [error |-> "Body must include non-empty \"prompts\" array"])]
          ELSE b' = BatchFor([b EXCEPT
                        !.maxAttempts = ClampAttempts(body.maxAttempts),
                        !.urls = Nulls(n), !.errors = Nulls(n), !.i = 1,
                        !.lastSeen = Nulls(n),
                        !.attempts = [k \in 1..n |-> 0],
                        !.touched = [k \in 1..n |-> FALSE],
                        !.stored = [k \in 1..n |-> FALSE]])

\* retryWithBackoff(async () => ai.models.generateContent(...)) is called
\* with its default parameters; the upstream API fails on any number of
\* invocations and then answers with a response of some kind
BatchCall ==
    /\ b.pc = "call"
    /\ rw.pc = "none"
    /\ rw' = RetryCall(DefaultMaxRetries, DefaultBaseDelay, 0..DefaultMaxRetries,
                       {Response(k) : k \in ResponseKinds})
    /\ UNCHANGED <<b, store, cl, ph, cmb, g, f, up, r2, nz>>

\* retryWithBackoff has returned or thrown: the checks of the response, up to
\* the await of R2_BUCKET.put, or the catch
BatchAfterCall ==
    /\ b.pc = "call"
    /\ RetryDone
    /\ rw' = NoRetryCall
    /\ UNCHANGED <<store, cl, ph, cmb, g, f, up, r2, nz>>
    /\ LET st == [b EXCEPT !.cur.calls = @ + rw.calls,
                           !.cur.expWaits = @ + Len(rw.delays),
                           !.touched[b.i] = @ \/ rw.calls > 0 \/ rw.delays # <<>>]
       IN IF rw.pc = "exhausted" THEN b' = BatchCatch(st, rw.thrown)
          ELSE IF rw.result.val.has = "nocandidates"
          THEN b' = BatchCatch(st, Str(<<"No candidates returned">>))
          ELSE IF rw.result.val.has = "noimage"
          THEN b' = BatchCatch(st, Str(<<"No image data in response">>))
          ELSE b' = [st EXCEPT !.pc = "put"]

\* await env.R2_BUCKET.put(key, ...) resolves, and urls[i] is set, or it
\* throws into the catch of this attempt
BatchPut ==
    /\ b.pc = "put"
    /\ UNCHANGED <<rw, store, cl, ph, cmb, g, f, up, r2, nz>>
    /\ LET st == [b EXCEPT !.touched[b.i] = TRUE]
       IN \/ b' = BatchWhile([st EXCEPT !.urls[b.i] = PublicUrl(b.i),
                                        !.errors[b.i] = Null,
                                        !.stored[b.i] = TRUE])
          \/ b' = BatchCatch(st, [kind |-> "r2"])

\* the timer of the linear delay fires: back to the while test
BatchWake ==
    /\ b.pc = "sleep"
    /\ UNCHANGED <<rw, store, cl, ph, cmb, g, f, up, r2, nz>>
    /\ b' = BatchWhile(b)

\* ------------------------------------------------------------ JSON texts

\* a JSON object with one key
Obj(key, val) == [kind |-> "object", key |-> key, val |-> val]
\* what JSON.parse throws
ParseError == [kind |-> "SyntaxError"]

RECURSIVE Stringify(_)
\* JSON.stringify: the text of a value, as its sequence of tokens
Stringify(v) ==
    IF v.kind = "null" THEN <<"null">>
    ELSE IF v.kind = "number" THEN <<ToString(v.v)>>
    ELSE IF v.kind = "boolean" THEN <<IF v.v THEN "true" ELSE "false">>
    ELSE IF v.kind = "string" THEN <<"\"">> \o v.s \o <<"\"">>
    ELSE <<"{", "\"", v.key, "\"", ":">> \o Stringify(v.val) \o <<"}">>

RECURSIVE Parse(_)
\* JSON.parse of a text: the value, or ParseError
Parse(t) ==
    IF t = <<"null">> THEN Null
    ELSE IF t = <<"true">> THEN Bool(TRUE)
    ELSE IF t = <<"false">> THEN Bool(FALSE)
    ELSE IF Len(t) = 1 /\ \E n \in 0..9 : t[1] = ToString(n)
    THEN Num(CHOOSE n \in 0..9 : t[1] = ToString(n))
    ELSE IF Len(t) >= 2 /\ t[1] = "\"" /\ t[Len(t)] = "\""
            /\ \A k \in 2..(Len(t) - 1) : t[k] \notin {"\"", "{", "}", ":"}
    THEN Str(SubSeq(t, 2, Len(t) - 1))
    ELSE IF Len(t) >= 7 /\ t[1] = "{" /\ t[2] = "\"" /\ t[4] = "\""
            /\ t[5] = ":" /\ t[Len(t)] = "}"
    THEN LET inner == Parse(SubSeq(t, 6, Len(t) - 1))
         IN IF inner = ParseError THEN ParseError ELSE Obj(t[3], inner)
    ELSE ParseError

\* the payloads a client posts, and the request bodies: their texts and a
\* text that is no JSON
MalformedText == <<"{", "\"", "foo">>
PayloadBodies ==
    {Stringify(v) : v \in {Null, Obj("foo", Str(<<"bar">>))}} \cup {MalformedText}

\* --------------------------------------------- the PayloadStore durable object

Uuids == 1..MaxUuids
\* two clients, each with one request to the payload routes in flight and
\* then the next: every pair of requests is interleaved
Clients == {"c1", "c2"}
\* the empty string between two slashes of a path
EmptySegment == 0

\* a store that keeps every record under one id
RecordIdOfShared(tail) == Num(1)

\* url.pathname.split('/').filter(Boolean) of `/data/${id}`, the id given as
\* its split at '/': segments[1], or Undefined
RecordIdOf(tail) ==
    LET segments == SelectSeq(tail, LAMBDA x : x # EmptySegment)
    IN IF segments = <<>> THEN Undefined ELSE Num(segments[1])

\* the response of the durable object: a status and a body text
StubResponse(status, text) == [status |-> status, text |-> text]
ErrorText(msg) == Stringify(Obj("error", Str(<<msg>>)))

\* an INSERT that replaces the table by the new row
UpsertAlone(rows, id, data) == [k \in {id} |-> data]

\* INSERT ... ON CONFLICT(id) DO UPDATE SET data = excluded.data
Upsert(rows, id, data) ==
    [k \in DOMAIN rows \cup {id} |-> IF k = id THEN data ELSE rows[k]]

\* a PUT that answers ok and writes nothing
StorePutDropped(rows, tail, contentType, text, sqlOk) ==
    [rows |-> rows,
     resp |-> StubResponse(200, Stringify(Obj("success", Str(<<"true">>))))]

\* PayloadStore.fetch for PUT /data/<tail>: the new rows and the response.
\* sqlOk: the INSERT does not throw
StorePut(rows, tail, contentType, text, sqlOk) ==
    LET recordId == RecordIdOf(tail)
        payload == Parse(text)
    IN IF recordId = Undefined
       THEN [rows |-> rows, resp |-> StubResponse(400, ErrorText("Record id is required"))]
       ELSE IF contentType \notin {"application/json", "application/json; charset=utf-8"}
       THEN [rows |-> rows,
             resp |-> StubResponse(400, ErrorText("Content-Type must be application/json"))]
       ELSE IF payload = ParseError
       THEN [rows |-> rows, resp |-> StubResponse(400, ErrorText("Invalid JSON body"))]
       ELSE IF ~sqlOk
       THEN [rows |-> rows, resp |-> StubResponse(500, ErrorText("Failed to store payload"))]
       ELSE [rows |-> Upsert(rows, recordId.v, Stringify(payload)),
             resp |-> StubResponse(200, Stringify(Obj("success", Str(<<"true">>))))]

\* PayloadStore.fetch for GET /data/<tail>: the response. sqlOk: the SELECT
\* does not throw
StoreGet(rows, tail, sqlOk) ==
    LET recordId == RecordIdOf(tail)
    IN IF recordId = Undefined
       THEN StubResponse(400, ErrorText("Record id is required"))
       ELSE IF ~sqlOk
       THEN StubResponse(500, ErrorText("Failed to retrieve payload"))
       ELSE IF recordId.v \notin DOMAIN rows
       THEN StubResponse(404, ErrorText("Not found"))
       ELSE IF Parse(rows[recordId.v]) = ParseError
       THEN StubResponse(500, ErrorText("Stored payload is corrupted"))
       ELSE StubResponse(200, Stringify(Parse(rows[recordId.v])))

\* ------------------------------------------- /api/payloads and /api/payloads/{id}

\* the part of the path after '/api/payloads/', split at '/'
Tails ==
    LET Segments == Uuids \cup {EmptySegment}
    IN {<<x>> : x \in Segments} \cup {<<x, y>> : x \in Segments, y \in Segments}


\* what the SELECT of a GET finds: no row, a row that parses, one that does
\* not; "none" where no SELECT is made
RowSeen(rows, tail, sqlOk) ==
    LET recordId == RecordIdOf(tail)
    IN IF recordId = Undefined \/ ~sqlOk THEN "none"
       ELSE IF recordId.v \notin DOMAIN rows THEN "missing"
       ELSE IF Parse(rows[recordId.v]) = ParseError THEN "corrupt"
       ELSE "ok"

\* the worker's answer to a client, with the request it answers
Answer(r, status, body) ==
    [pc |-> "done", op |-> r.op, late |-> r.late, tail |-> r.tail, saw |-> r.saw,
     status |-> status, body |-> body]

\* POST /api/payloads up to the await of stub.fetch: the content type, the
\* body, crypto.randomUUID() and the PUT request to the durable object
PayloadPostReceive(c) ==
    /\ cl[c].pc \in {"idle", "done", "thrown"}
    /\ \E ct \in {"application/json", "text/plain"}, text \in PayloadBodies :
        LET r == [op |-> "POST", late |-> FALSE, tail |-> <<>>, saw |-> "none"]
        IN IF ct # "application/json"
           THEN /\ cl' = [cl EXCEPT ![c] = Answer(r, 400,
                            [error |-> "Content-Type must be application/json"])]
                /\ ph' = ph
           ELSE IF Parse(text) = ParseError
           THEN /\ cl' = [cl EXCEPT ![c] = Answer(r, 400,
                            [error |-> "Invalid JSON body"])]
                /\ ph' = ph
           ELSE \E id \in Uuids \ ph.generated :
                /\ cl' = [cl EXCEPT ![c] =
                            [pc |-> "put", op |-> "POST", late |-> FALSE,
                             tail |-> <<id>>, saw |-> "none", payload |-> Parse(text),
                             text |-> Stringify(Parse(text))]]
                /\ ph' = [ph EXCEPT !.generated = @ \cup {id}]
    /\ UNCHANGED <<rw, b, store, cmb, g, f, up, r2, nz>>

\* the durable object handles the PUT
PayloadStorePut(c, sqlOk) ==
    /\ cl[c].pc = "put"
    /\ LET out == StorePut(store, cl[c].tail, "application/json", cl[c].text, sqlOk)
       IN /\ store' = out.rows
          /\ cl' = [cl EXCEPT ![c] =
                    [pc |-> "putdone", op |-> "POST", late |-> FALSE,
                     tail |-> cl[c].tail, saw |-> "none", payload |-> cl[c].payload,
                     stub |-> out.resp]]
          /\ ph' = IF out.resp.status = 200
                   THEN [ph EXCEPT !.written = @ \cup {RecordIdOf(cl[c].tail).v}]
                   ELSE ph
    /\ UNCHANGED <<rw, b, cmb, g, f, up, r2, nz>>

\* POST /api/payloads after stub.fetch: 500 unless the PUT was answered ok,
\* else 201 with the id and the payload
PayloadPostRespond(c) ==
    /\ cl[c].pc = "putdone"
    /\ LET r == cl[c]
       IN IF r.stub.status # 200
          THEN /\ cl' = [cl EXCEPT ![c] = Answer(r, 500,
                            [error |-> "Failed to save payload", details |-> r.stub.text])]
               /\ ph' = ph
          ELSE /\ cl' = [cl EXCEPT ![c] = Answer(r, 201,
                            [id |-> r.tail, payload |-> r.payload])]
               /\ ph' = [ph EXCEPT !.answered =
                            Upsert(ph.answered, r.tail[1], r.payload)]
    /\ UNCHANGED <<rw, b, store, cmb, g, f, up, r2, nz>>

\* GET /api/payloads/<tail> up to the await of stub.fetch: 400 for an empty
\* id. late records whether the id had been answered by a 201 before
PayloadGetReceive(c) ==
    /\ cl[c].pc \in {"idle", "done", "thrown"}
    /\ \E tail \in Tails :
        LET r == [op |-> "GET", tail |-> tail, saw |-> "none",
                  late |-> Len(tail) = 1 /\ tail[1] \in DOMAIN ph.answered]
        IN IF tail = <<EmptySegment>>
           THEN cl' = [cl EXCEPT ![c] = Answer(r, 400,
                        [error |-> "Payload id is required"])]
           ELSE cl' = [cl EXCEPT ![c] =
                        [pc |-> "get", op |-> "GET", late |-> r.late,
                         tail |-> tail, saw |-> "none"]]
    /\ UNCHANGED <<rw, b, store, ph, cmb, g, f, up, r2, nz>>

\* the durable object handles the GET
PayloadStoreGet(c, sqlOk) ==
    /\ cl[c].pc = "get"
    /\ cl' = [cl EXCEPT ![c] =
                [pc |-> "getdone", op |-> "GET", late |-> cl[c].late,
                 tail |-> cl[c].tail, saw |-> RowSeen(store, cl[c].tail, sqlOk),
                 stub |-> StoreGet(store, cl[c].tail, sqlOk)]]
    /\ UNCHANGED <<rw, b, store, ph, cmb, g, f, up, r2, nz>>

\* GET /api/payloads/<tail> after stub.fetch: 404 for the store's 404, 500
\* for any other failure, else 200 with the id of the path and the payload
PayloadGetRespond(c) ==
    /\ cl[c].pc = "getdone"
    /\ LET r == cl[c]
       IN IF r.stub.status = 404
          THEN cl' = [cl EXCEPT ![c] = Answer(r, 404,
                        [error |-> "Payload not found"])]
          ELSE IF r.stub.status # 200
          THEN cl' = [cl EXCEPT ![c] = Answer(r, 500,
                        [error |-> "Failed to retrieve payload",
                         details |-> r.stub.text])]
          ELSE IF Parse(r.stub.text) = ParseError
          THEN cl' = [cl EXCEPT ![c] = Answer(r, 500,
                        [error |-> "Unexpected response from storage"])]
          ELSE cl' = [cl EXCEPT ![c] = Answer(r, 200,
                        [id |-> r.tail, payload |-> Parse(r.stub.text)])]
    /\ UNCHANGED <<rw, b, store, ph, cmb, g, f, up, r2, nz>>

\* the durable object throws instead of answering: schemaReady is a rejected
\* promise when the CREATE TABLE of initializeSchema threw, and fetch awaits
\* it outside any try. stub.fetch then rejects in the worker, whose
\* /api/payloads handlers and fetch handler have no try around it
PayloadStoreThrows(c) ==
    /\ cl[c].pc \in {"put", "get"}
    /\ cl' = [cl EXCEPT ![c] =
                [pc |-> "thrown", op |-> cl[c].op, late |-> cl[c].late,
                 tail |-> cl[c].tail, saw |-> cl[c].saw,
                 error |-> [kind |-> "schemaReady"]]]
    /\ UNCHANGED <<rw, b, store, ph, cmb, g, f, up, r2, nz>>

\* one request to the durable object itself, a PUT or a GET of /data/<tail>,
\* handled in one piece: the rows before it and the response are kept
StoreFetch(c) ==
    /\ \E method \in {"PUT", "GET"}, tail \in Tails, text \in PayloadBodies,
          contentType \in {"application/json", "application/json; charset=utf-8",
                           "text/plain", ""},
          sqlOk \in BOOLEAN :
        LET out == IF method = "PUT"
                   THEN StorePut(store, tail, contentType, text, sqlOk)
                   ELSE [rows |-> store, resp |-> StoreGet(store, tail, sqlOk)]
        IN /\ store' = out.rows
           /\ cl' = [cl EXCEPT ![c] =
                        [pc |-> "done", op |-> method, tail |-> tail, text |-> text,
                         before |-> store, stub |-> out.resp]]
    /\ UNCHANGED <<rw, b, ph, cmb, g, f, up, r2, nz>>

\* the data of a row is damaged in the storage, outside the worker's code
StorageCorrupts ==
    /\ \E id \in DOMAIN store :
        /\ Parse(store[id]) # ParseError
        /\ store' = [store EXCEPT ![id] = MalformedText]
    /\ UNCHANGED <<rw, b, cl, ph, cmb, g, f, up, r2, nz>>

\* ------------------------------------------------------------ images by URL

\* a MIME type 'type/subtype'; the empty string
Mime(type, subtype) == [type |-> type, subtype |-> subtype]
NoMime == Mime("", "")
\* mimeType.startsWith('image/')
IsImageMime(m) == m.type = "image"

\* a File: its declared type, its size, its name as the sequence of its
\* pieces, the dots among them
File(type, size, name) == [kind |-> "file", type |-> type, size |-> size, name |-> name]

\* new URL(u).protocol is http: or https:, for a URL given as its protocol
\* followed by the rest; anything else does not parse or is not supported
SupportedProtocol(u) ==
    /\ u.kind = "string"
    /\ Len(u.s) >= 2
    /\ u.s[1] \in {"http:", "https:"}

\* what the fetch of a URL brings: an image, a status that is not ok, a
\* document that is no image
FetchOutcomes == {"image", "notok", "notimage"}
FetchError == [kind |-> "fetch"]

\* fetchImageFromUrl: the File, or the error it throws; requested tells
\* whether the network request was made
FetchImageFromUrl(u, outcome) ==
    IF ~SupportedProtocol(u)
    THEN [ok |-> FALSE, requested |-> FALSE, file |-> Null]
    ELSE IF outcome # "image"
    THEN [ok |-> FALSE, requested |-> TRUE, file |-> Null]
    ELSE [ok |-> TRUE, requested |-> TRUE,
          file |-> File(Mime("image", "png"), 1, <<"image">>)]

\* ------------------------------------------------- POST /api/combine-images

\* seq.slice(0, n)
Take(seq, n) == SubSeq(seq, 1, MinOf(n, Len(seq)))

\* the values that are strings, trimmed, the empty ones dropped
NormalizedUrls(values) ==
    LET strings == SelectSeq(values, LAMBDA v : v.kind = "string")
        trimmed == [k \in 1..Len(strings) |-> Str(Trim(strings[k].s))]
    IN SelectSeq(trimmed, LAMBDA u : u.s # <<>>)

\* the values of the file fields that are files with content
TentativeFiles(values) ==
    SelectSeq(values, LAMBDA v : v.kind = "file" /\ v.size > 0)

NoCombine ==
    [pc |-> "none", req |-> Undefined, files |-> <<>>, toFetch |-> <<>>,
     resp |-> Undefined, fetched |-> 0, calls |-> 0, puts |-> 0, got |-> "none"]

\* the catch of the handler
CombineCatch(st, error) ==
    [st EXCEPT !.pc = "done", !.resp = JsonResponse(502, [error |-> error])]

CombineReject(st, msg) ==
    [st EXCEPT !.pc = "done", !.resp = JsonResponse(400, [error |-> msg])]

\* the two files are there: on to the upstream call
CombineGathered(st, files) ==
    IF Len(files) < 2
    THEN CombineReject(st, "Two images are required to combine")
    ELSE [st EXCEPT !.pc = "call", !.files = files]

\* the handler up to its first await of fetchImageFromUrl or of
\* retryWithBackoff
CombineReceive ==
    /\ cmb.pc = "start"
    /\ LET req == cmb.req
       IN IF req.contentType = "application/json"
          THEN IF req.body.kind \in {"malformed", "null", "urlsNotArray"}
               THEN cmb' = CombineCatch(cmb, [kind |-> req.body.kind])
               ELSE LET urls == NormalizedUrls(req.body.imageUrls)
                    IN IF Len(urls) < 2
                       THEN cmb' = CombineReject(cmb,
                                "Request must include at least two imageUrls")
                       ELSE cmb' = [cmb EXCEPT !.pc = "fetch",
                                               !.toFetch = Take(urls, 2)]
          ELSE IF req.contentType = "multipart/form-data"
          THEN IF req.body.kind = "malformed"
               THEN cmb' = CombineCatch(cmb, [kind |-> "malformed"])
               ELSE LET files == Take(TentativeFiles(req.body.files), 2)
                        urls == NormalizedUrls(req.body.urls)
                    IN IF Len(files) = 2 THEN cmb' = CombineGathered(cmb, files)
                       ELSE IF urls = <<>>
                       THEN cmb' = CombineReject(cmb,
                                "Provide at least two images via files or URLs")
                       ELSE cmb' = [cmb EXCEPT !.pc = "fetch", !.files = files,
                                        !.toFetch = Take(urls, 2 - Len(files))]
          ELSE cmb' = CombineReject(cmb,
                    "Content-Type must be application/json or multipart/form-data")
    /\ UNCHANGED <<rw, b, store, cl, ph, g, f, up, r2, nz>>

\* Promise.all(urlsToFetch.map(fetchImageFromUrl)) settles: one failed fetch
\* rejects it, into the catch
CombineFetch ==
    /\ cmb.pc = "fetch"
    /\ \E outcomes \in [1..Len(cmb.toFetch) -> FetchOutcomes] :
        LET got == [k \in 1..Len(cmb.toFetch) |->
                        FetchImageFromUrl(cmb.toFetch[k], outcomes[k])]
            st == [cmb EXCEPT !.fetched =
                        Cardinality({k \in 1..Len(got) : got[k].ok})]
            files == cmb.files \o [k \in 1..Len(got) |-> got[k].file]
        IN IF \E k \in 1..Len(got) : ~got[k].ok
           THEN cmb' = CombineCatch(st, FetchError)
           ELSE IF cmb.req.contentType = "multipart/form-data" /\ Len(files) < 2
           THEN cmb' = CombineReject(st,
                    "Provide at least two images via files or URLs")
           ELSE cmb' = CombineGathered(st, files)
    /\ UNCHANGED <<rw, b, store, cl, ph, g, f, up, r2, nz>>

\* the call of retryWithBackoff with the defaults
CombineCall ==
    /\ cmb.pc = "call"
    /\ rw.pc = "none"
    /\ rw' = RetryCall(DefaultMaxRetries, DefaultBaseDelay, 0..DefaultMaxRetries,
                       {Response(k) : k \in ResponseKinds})
    /\ UNCHANGED <<b, store, cl, ph, cmb, g, f, up, r2, nz>>

\* retryWithBackoff has returned or thrown: the checks of the response, up to
\* the await of R2_BUCKET.put, or the catch
CombineAfterCall ==
    /\ cmb.pc = "call"
    /\ RetryDone
    /\ rw' = NoRetryCall
    /\ LET st == [cmb EXCEPT !.calls = @ + rw.calls,
                             !.got = IF rw.pc = "exhausted" THEN "error"
                                     ELSE rw.result.val.has]
       IN IF rw.pc = "exhausted" THEN cmb' = CombineCatch(st, rw.thrown)
          ELSE IF rw.result.val.has = "nocandidates"
          THEN cmb' = CombineCatch(st, [kind |-> "nocandidates"])
          ELSE IF rw.result.val.has = "noimage"
          THEN cmb' = CombineCatch(st, [kind |-> "noimage"])
          ELSE cmb' = [st EXCEPT !.pc = "put"]
    /\ UNCHANGED <<b, store, cl, ph, g, f, up, r2, nz>>

\* await env.R2_BUCKET.put(key, ...) resolves, and the 200 is answered, or
\* it throws into the catch
CombinePut ==
    /\ cmb.pc = "put"
    /\ \/ cmb' = [cmb EXCEPT !.pc = "done", !.puts = @ + 1,
                             !.resp = JsonResponse(200, [success |-> TRUE])]
       \/ cmb' = CombineCatch(cmb, [kind |-> "r2"])
    /\ UNCHANGED <<rw, b, store, cl, ph, g, f, up, r2, nz>>

\* the requests: JSON bodies with a list of URLs (the empty list also stands
\* for no imageUrls field), forms with file values and URL values; the prompt
\* of the request is left out
CombineRequests ==
    LET UrlValues ==
            {Num(7), Str(<<" ">>), Str(<<" ", "https:", "//img">>), Str(<<"ftp:", "//img">>)}
        FileValues ==
            {File(Mime("image", "png"), 1, <<"a", ".", "png">>),
             File(Mime("text", "plain"), 1, <<"a", ".", "txt">>),
             File(Mime("image", "png"), 0, <<"a", ".", "png">>), Str(<<"x">>)}
        ListsOf(S) == UNION {[1..k -> S] : k \in 0..MaxImages}
    IN {[contentType |-> "application/json", body |-> [kind |-> k]] :
            k \in {"malformed", "null", "urlsNotArray"}}
       \cup {[contentType |-> "application/json",
               body |-> [kind |-> "object", imageUrls |-> l]] : l \in ListsOf(UrlValues)}
       \cup {[contentType |-> "multipart/form-data", body |-> [kind |-> "malformed"]]}
       \cup {[contentType |-> "multipart/form-data",
               body |-> [kind |-> "form", files |-> fs, urls |-> l]] :
                fs \in ListsOf(FileValues), l \in ListsOf(UrlValues \ {Num(7)})}
       \cup {[contentType |-> ""]}

\* ------------------------------------------------------ normalizeImageInput

\* the value of a property that an object literal inherits from
\* Object.prototype: a function, no string, and truthy
Inherited(name) == Mime("Object.prototype", name)

\* EXTENSION_TO_MIME[ext]: the entry of the table, for a name that
\* Object.prototype defines the inherited member, NoMime (undefined) for
\* any other extension
ExtensionToMime(ext) ==
    IF ext \in {"jpg", "jpeg"} THEN Mime("image", "jpeg")
    ELSE IF ext \in {"tif", "tiff"} THEN Mime("image", "tiff")
    ELSE IF ext = "svg" THEN Mime("image", "svg+xml")
    ELSE IF ext \in {"png", "gif", "webp", "heic", "heif", "avif", "bmp"}
    THEN Mime("image", ext)
    ELSE IF ext \in {"constructor", "valueOf"} THEN Inherited(ext)
    ELSE NoMime

\* toLowerCase, for the extensions and the header names of the model
ToLowerCase(t) ==
    IF t = "HEIC" THEN "heic" ELSE IF t = "PNG" THEN "png"
    ELSE IF t \in {"Content-Type", "CONTENT-TYPE", "Content-type"} THEN "content-type"
    ELSE t

\* getExtensionFromFilename: the lower-cased pieces after the last dot, none
\* for a name without a dot or with its last dot at the end
GetExtensionFromFilename(filename) ==
    LET dots == {k \in 1..Len(filename) : filename[k] = "."}
    IN IF dots = {} THEN <<>>
       ELSE LET lastDot == CHOOSE k \in dots : \A j \in dots : j <= k
            IN [k \in 1..(Len(filename) - lastDot) |-> ToLowerCase(filename[lastDot + k])]

\* guessMimeTypeFromFilename
GuessMimeTypeFromFilename(filename) ==
    LET ext == GetExtensionFromFilename(filename)
    IN IF Len(ext) = 1 THEN ExtensionToMime(ext[1]) ELSE NoMime

\* the filename of an input that carries none
DefaultFilename == <<"uploaded-image">>

\* a || b for MIME strings
OrElse(a, d) == IF a # NoMime THEN a ELSE d

\* atob accepts the text
IsBase64(t) == \A k \in 1..Len(t) : t[k] \in {"Zm9v", "YmFy"}

\* extractBase64AndMime: a data URL 'data:<type>/<subtype>;base64,<data>'
\* gives its data and its MIME, any other text gives itself without spaces
ExtractBase64AndMime(s) ==
    LET t == Trim(s)
    IN IF Len(t) >= 6 /\ t[1] = "data:" /\ t[3] = "/" /\ t[5] = ";base64,"
       THEN [base64 |-> SubSeq(t, 6, Len(t)), mimeTypeHint |-> Mime(t[2], t[4])]
       ELSE [base64 |-> SelectSeq(t, LAMBDA c : ~IsSpace(c)), mimeTypeHint |-> NoMime]

Normalized(mimeType, size, filename) ==
    [ok |-> TRUE, mimeType |-> mimeType, size |-> size, filename |-> filename]
NormalizeError(msg) == [ok |-> FALSE, error |-> msg]

\* a string branch that decodes whatever text it is given
NormalizeBase64Unchecked(s) ==
    LET e == ExtractBase64AndMime(s)
    IN Normalized(IF IsImageMime(e.mimeTypeHint) THEN e.mimeTypeHint
                  ELSE Mime("image", "jpeg"), Len(e.base64), DefaultFilename)

\* the string branch after the attempt to read it as JSON
NormalizeBase64(s) ==
    LET e == ExtractBase64AndMime(s)
    IN IF ~IsBase64(e.base64) THEN NormalizeError("InvalidCharacterError")
       ELSE Normalized(IF IsImageMime(e.mimeTypeHint) THEN e.mimeTypeHint
                       ELSE Mime("image", "jpeg"), Len(e.base64), DefaultFilename)

\* an object with a content field and, where they are not undefined, the
\* fields filename, mimeType and headers
ContentObject(content, filename, mimeType, headers) ==
    [kind |-> "object", key |-> "content", val |-> content,
     filename |-> filename, mimeType |-> mimeType, headers |-> headers]

\* record[name], undefined for a field the object does not have
Field(record, name) == IF name \in DOMAIN record THEN record[name] ELSE Undefined

\* an array
Arr(items) == [kind |-> "array", items |-> items]

\* the MIME type that a string value names, NoMime for '' and undefined
AsMime(v) ==
    IF v.kind # "string" \/ v.s = <<>> THEN NoMime
    ELSE IF Len(v.s) = 3 /\ v.s[2] = "/" THEN Mime(v.s[1], v.s[3])
    ELSE Mime(v.s[1], "")

\* getHeaderValue: headers[header] ?? headers[header.toLowerCase()] ??
\* headers[normalizedHeader] of a headers object of one key; of an array its
\* first element; undefined for what is no string
GetHeaderValue(headers, header) ==
    IF headers.kind # "object" THEN Undefined
    ELSE LET Prop(k) == IF headers.key = k THEN headers.val ELSE Undefined
             Nullish(a, d) == IF a.kind \in {"null", "undefined"} THEN d ELSE a
             normalizedHeader == ToLowerCase(header)
             value == Nullish(Prop(header),
                              Nullish(Prop(ToLowerCase(header)), Prop(normalizedHeader)))
         IN IF value.kind = "array"
            THEN IF value.items # <<>> /\ value.items[1].kind = "string"
                 THEN value.items[1] ELSE Undefined
            ELSE IF value.kind = "string" THEN value ELSE Undefined

\* the branch of an object with a string content field
NormalizeContent(record) ==
    LET e == ExtractBase64AndMime(record.val.s)
        name == Field(record, "filename")
        filename == IF name.kind = "string" /\ name.s # <<>> THEN name.s
                    ELSE DefaultFilename
        headerMime == GetHeaderValue(Field(record, "headers"), "Content-Type")
        given == Field(record, "mimeType")
        mimeType ==
            OrElse(IF given.kind = "string" /\ given.s # <<>> THEN AsMime(given)
                   ELSE NoMime,
            OrElse(AsMime(headerMime),
            OrElse(e.mimeTypeHint,
            OrElse(GuessMimeTypeFromFilename(filename), Mime("image", "jpeg")))))
    IN IF ~IsBase64(e.base64) THEN NormalizeError("InvalidCharacterError")
       ELSE Normalized(mimeType, Len(e.base64), filename)

RECURSIVE NormalizeImageInput(_)
\* normalizeImageInput: the normalized image or the error thrown
NormalizeImageInput(v) ==
    IF v.kind \in {"null", "undefined"} THEN NormalizeError("No image input provided")
    ELSE IF v.kind = "string"
    THEN LET t == Trim(v.s)
         IN IF t # <<>> /\ t[1] = "{" /\ t[Len(t)] = "}" /\ Parse(t) # ParseError
            THEN NormalizeImageInput(Parse(t))
            ELSE NormalizeBase64(t)
    ELSE IF v.kind = "file"
    THEN LET filename == IF v.name # <<>> THEN v.name ELSE DefaultFilename
         IN Normalized(OrElse(v.type, OrElse(GuessMimeTypeFromFilename(filename),
                                             Mime("image", "jpeg"))),
                       v.size, filename)
    ELSE IF v.kind = "object" /\ v.key = "image" THEN NormalizeImageInput(v.val)
    ELSE IF v.kind = "object" /\ v.key = "content" /\ v.val.kind = "string"
    THEN NormalizeContent(v)
    ELSE NormalizeError("Unsupported image input format")

\* the depth to which the inputs are nested
MaxDepth == 2

\* the values JSON.parse can give: null, a number, a boolean, strings (the
\* empty one, base64 with and without spaces, a text that atob refuses, data
\* URLs) and these in objects of one key
RECURSIVE JsonValues(_)
JsonValues(depth) ==
    IF depth = 0
    THEN {Null, Num(7), Bool(TRUE), Str(<<>>), Str(<<"Zm9v">>),
          Str(<<" ", "Zm9v", " ", "YmFy">>), Str(<<"!">>),
          Str(<<"data:", "image", "/", "png", ";base64,", "Zm9v">>),
          Str(<<"data:", "text", "/", "html", ";base64,", "Zm9v">>)}
    ELSE JsonValues(depth - 1)
         \cup {Obj(key, v) : key \in {"image", "content", "other"},
                              v \in JsonValues(depth - 1)}

\* the inputs of the normalizer: the values above, the JSON texts of the
\* objects, texts in braces that are no JSON, and blobs (with and without a
\* declared type, empty, named and unnamed), also in image fields, and
\* objects with a content string and any of filename, mimeType and headers,
\* the headers an object of one key
NormalizeInputs ==
    LET BlobLeaves ==
            {File(Mime("image", "png"), 1, <<"a", ".", "png">>),
             File(Mime("text", "plain"), 1, <<"a", ".", "txt">>),
             File(Mime("image", "png"), 0, <<"a", ".", "png">>),
             File(NoMime, 1, <<"a", ".", "HEIC">>), File(NoMime, 1, <<>>),
             File(NoMime, 1, <<"a">>), File(NoMime, 1, <<"a", ".">>),
             File(NoMime, 1, <<"a", ".", "txt">>),
             File(NoMime, 1, <<"a", ".", "b", ".", "PNG">>),
             File(NoMime, 1, <<"a", ".", "png", ".", "txt">>),
             File(NoMime, 1, <<"a", ".", "constructor">>)}
        HeaderValues ==
            {Str(<<"image", "/", "bmp">>), Str(<<>>), Num(7), Arr(<<>>),
             Arr(<<Str(<<"image", "/", "bmp">>)>>), Arr(<<Num(7)>>)}
        HeaderMaps ==
            {Undefined, Null}
            \cup {Obj(k, v) : k \in {"Content-Type", "content-type", "CONTENT-TYPE",
                                     "Content-type", "Accept"},
                              v \in HeaderValues}
        ContentObjects ==
            {ContentObject(c, n, t, h) :
                c \in {Str(<<"Zm9v">>), Str(<<"!">>),
                       Str(<<"data:", "image", "/", "png", ";base64,", "Zm9v">>)},
                n \in {Undefined, Str(<<>>), Str(<<"a", ".", "gif">>), Str(<<"a">>)},
                t \in {Undefined, Num(7), Str(<<>>), Str(<<"image", "/", "webp">>)},
                h \in HeaderMaps}
    IN {Undefined, Str(<<"{", "Zm9v", "}">>), Str(<<" ", "{", "}">>)}
       \cup BlobLeaves
       \cup ContentObjects
       \cup JsonValues(MaxDepth)
       \cup {Str(Stringify(v)) : v \in {o \in JsonValues(MaxDepth) : o.kind = "object"}}
       \cup {Obj("image", v) : v \in BlobLeaves}
       \cup {Obj("image", Obj("image", v)) : v \in BlobLeaves}

\* one call of the normalizer
NormalizeCall ==
    /\ nz.pc = "start"
    /\ nz' = [nz EXCEPT !.pc = "done", !.out = NormalizeImageInput(nz.input)]
    /\ UNCHANGED <<rw, b, store, cl, ph, cmb, g, f, up, r2>>

\* ------------------------------------------- POST /api/generate and /generate

NoGenerate ==
    [pc |-> "none", req |-> Undefined, image |-> Undefined, resp |-> Undefined,
     calls |-> 0, got |-> "none"]

\* the message of an error, as the phrases it is made of; the message of an
\* error of another origin (the upstream API, request.json(), formData())
\* is taken to hold none of the phrases the catch looks for
ErrorMessage(error) ==
    IF error.kind = "nocandidates"
    THEN <<"No response generated", " from Gemini API - no candidates returned">>
    ELSE IF error.kind = "nullcandidate"
    THEN <<"Invalid response structure", " from Gemini API - candidate is null">>
    ELSE IF error.kind = "nocontent"
    THEN <<"Invalid response structure", " from Gemini API - no content in candidate">>
    ELSE IF error.kind = "noparts"
    THEN <<"Invalid response structure", " from Gemini API - no parts in content">>
    ELSE IF error.kind = "noimage"
    THEN <<"No inline image content", " generated in response">>
    ELSE IF error.kind = "fetch"
    THEN <<"Failed to ", "fetch", " image from URL: ">>
    ELSE <<error.kind>>

\* message.includes(phrase)
Includes(message, phrase) == \E k \in 1..Len(message) : message[k] = phrase

\* a catch that answers 500 whatever the message
GenerateErrorStatusFlat(error) == 500

\* the status the catch of the handler gives an error, by the phrase its
\* message includes
GenerateErrorStatus(error) ==
    LET message == ErrorMessage(error)
    IN IF Includes(message, "No response generated") THEN 503
       ELSE IF Includes(message, "Invalid response structure") THEN 502
       ELSE IF Includes(message, "No inline image content") THEN 422
       ELSE IF Includes(message, "fetch") THEN 400
       ELSE 500

\* the user-facing message that goes with a status of the catch
GenerateErrorText(status, message) ==
    IF status = 503
    THEN <<"The AI service did not generate any content. Please try again.">>
    ELSE IF status = 502
    THEN <<"The AI service returned an unexpected response format. Please try again.">>
    ELSE IF status = 422
    THEN <<"The AI service could not generate content. Please try with a different image or prompt.">>
    ELSE IF status = 400
    THEN <<"Failed to fetch the uploaded image. Please check the image URL.">>
    ELSE message

\* the catch of the handler; the requests of the model carry no language,
\* date or prompt
GenerateCatch(st, error) ==
    LET status == GenerateErrorStatus(error)
    IN [st EXCEPT !.pc = "done",
                  !.resp = JsonResponse(status,
                      [error |-> GenerateErrorText(status, ErrorMessage(error)),
                       details |-> ErrorMessage(error),
                       timestamp |-> "new Date().toISOString()",
                       requestInfo |-> [language |-> "en", hasDate |-> FALSE,
                                        hasPrompt |-> FALSE]])]

GenerateReject(st, msg) ==
    [st EXCEPT !.pc = "done", !.resp = JsonResponse(400, [error |-> msg])]

\* !value for the values a body or a form holds
Falsy(v) ==
    \/ v.kind \in {"null", "undefined"}
    \/ v.kind = "string" /\ v.s = <<>>
    \/ v.kind = "number" /\ v.v = 0

\* the image input is there: the normalizer, then on to the upstream call
GenerateNormalize(st, imageInput) ==
    IF Falsy(imageInput) THEN GenerateReject(st, "Missing image file")
    ELSE IF ~NormalizeImageInput(imageInput).ok
    THEN GenerateReject(st, "Invalid image file")
    ELSE [st EXCEPT !.pc = "call", !.image = NormalizeImageInput(imageInput)]

\* the handler up to its first await of fetchImageFromUrl or of
\* retryWithBackoff
GenerateReceive ==
    /\ g.pc = "start"
    /\ LET req == g.req
       IN IF req.contentType = "application/json"
          THEN IF req.body.kind \in {"malformed", "null"}
               THEN g' = GenerateCatch(g, [kind |-> req.body.kind])
               ELSE IF Falsy(req.body.imageUrl)
               THEN g' = GenerateReject(g, "Missing imageUrl in JSON body")
               ELSE g' = [g EXCEPT !.pc = "fetch"]
          ELSE IF req.contentType = "multipart/form-data"
          THEN IF req.body.kind = "malformed"
               THEN g' = GenerateCatch(g, [kind |-> "malformed"])
               ELSE g' = GenerateNormalize(g, req.body.image)
          ELSE g' = GenerateReject(g,
                    "Content-Type must be application/json or multipart/form-data")
    /\ UNCHANGED <<rw, b, store, cl, ph, cmb, f, up, r2, nz>>

\* fetchImageFromUrl(body.imageUrl) settles
GenerateFetch ==
    /\ g.pc = "fetch"
    /\ \E outcome \in FetchOutcomes :
        LET got == FetchImageFromUrl(g.req.body.imageUrl, outcome)
        IN IF ~got.ok THEN g' = GenerateCatch(g, FetchError)
           ELSE g' = GenerateNormalize(g, got.file)
    /\ UNCHANGED <<rw, b, store, cl, ph, cmb, f, up, r2, nz>>

\* the call of retryWithBackoff with the defaults, and the shapes of an
\* upstream response
GenerateCall ==
    /\ g.pc = "call"
    /\ rw.pc = "none"
    /\ rw' = RetryCall(DefaultMaxRetries, DefaultBaseDelay, 0..DefaultMaxRetries,
                       {Response(k) : k \in {"nocandidates", "nullcandidate", "nocontent",
                                              "noparts", "noimage", "image"}})
    /\ UNCHANGED <<b, store, cl, ph, cmb, g, f, up, r2, nz>>

\* retryWithBackoff has returned or thrown: the checks of the response and
\* the 200, or the catch
GenerateAfterCall ==
    /\ g.pc = "call"
    /\ RetryDone
    /\ rw' = NoRetryCall
    /\ LET st == [g EXCEPT !.calls = @ + rw.calls,
                           !.got = IF rw.pc = "exhausted" THEN "error"
                                   ELSE rw.result.val.has]
       IN IF rw.pc = "exhausted" THEN g' = GenerateCatch(st, rw.thrown)
          ELSE IF rw.result.val.has # "image"
          THEN g' = GenerateCatch(st, [kind |-> rw.result.val.has])
          ELSE g' = [st EXCEPT !.pc = "done",
                               !.resp = JsonResponse(200, [success |-> TRUE])]
    /\ UNCHANGED <<b, store, cl, ph, cmb, f, up, r2, nz>>

\* the requests: JSON bodies with an imageUrl, forms with an image value
GenerateRequests ==
    LET ImageUrlValues ==
            {Undefined, Str(<<>>), Num(7), Str(<<"https:", "//img">>), Str(<<"ftp:", "//img">>)}
        TextHtml == <<"data:", "text", "/", "html", ";base64,", "Zm9v">>
        ImageValues ==
            {Null, Str(<<>>), Str(<<"Zm9v">>), Str(<<"!">>), Str(TextHtml),
             Str(Stringify(Obj("content", Str(TextHtml)))),
             Str(Stringify(Obj("image", Null))),
             File(Mime("image", "png"), 1, <<"a", ".", "png">>),
             File(Mime("text", "plain"), 1, <<"a", ".", "txt">>),
             File(NoMime, 1, <<"a", ".", "png">>), File(NoMime, 0, <<"a", ".", "txt">>)}
    IN {[contentType |-> "application/json", body |-> [kind |-> k]] :
            k \in {"malformed", "null"}}
       \cup {[contentType |-> "application/json",
               body |-> [kind |-> "object", imageUrl |-> u]] : u \in ImageUrlValues}
       \cup {[contentType |-> "multipart/form-data", body |-> [kind |-> "malformed"]]}
       \cup {[contentType |-> "multipart/form-data",
               body |-> [kind |-> "form", image |-> v]] : v \in ImageValues}
       \cup {[contentType |-> ""]}

\* ------------------------------------------------- default.fetch and CORS

\* a path as its segments between the slashes: it starts with '/api/' or is
\* '/generate'
IsApiPath(path) ==
    \/ Len(path) >= 2 /\ path[1] = "api"
    \/ path = <<"generate">>

AllowOrigin == "Access-Control-Allow-Origin"

\* CORS headers that echo the Origin header whatever it is
GetCorsHeadersEcho(origin) ==
    (AllowOrigin :> (IF Falsy(origin) THEN Str(<<"*">>) ELSE origin))
    @@ ("Vary" :> Str(<<"Origin">>))

\* getCorsHeaders: the Origin header, '*' when there is none (get returns
\* null) or it is empty, and '*' for the literal 'null'
GetCorsHeaders(origin) ==
    LET o == IF Falsy(origin) THEN Str(<<"*">>) ELSE origin
    IN (AllowOrigin :> (IF o = Str(<<"null">>) THEN Str(<<"*">>) ELSE o))
       @@ ("Vary" :> Str(<<"Origin">>))

\* withCors: the headers of the response with the CORS headers set over them
WithCors(response, origin) ==
    [response EXCEPT !.headers = GetCorsHeaders(origin) @@ response.headers]

HttpResponse(status, body, headers) ==
    [status |-> status, body |-> body, headers |-> headers]

NoFetch == [pc |-> "none", req |-> Undefined, ran |-> FALSE, resp |-> Undefined]

\* fetch up to the await of handleApiRequest: the preflight, or the static
\* files for a path that is no API path (index.html is the only file here)
FetchReceive ==
    /\ f.pc = "start"
    /\ IF IsApiPath(f.req.path)
       THEN IF f.req.method = "OPTIONS"
            THEN f' = [f EXCEPT !.pc = "done",
                         !.resp = HttpResponse(204, Null, GetCorsHeaders(f.req.origin))]
            ELSE f' = [f EXCEPT !.pc = "handling", !.ran = TRUE]
       ELSE f' = [f EXCEPT !.pc = "done",
                    !.resp = HttpResponse(200, Str(<<"index.html">>),
                                          "Content-Type" :> Str(<<"text/html">>))]
    /\ UNCHANGED <<rw, b, store, cl, ph, cmb, g, up, r2, nz>>

\* handleApiRequest has returned its response, of one of its statuses,
\* which withCors wraps, or it has thrown
FetchRespond ==
    /\ f.pc = "handling"
    /\ \/ \E status \in {200, 201, 400, 404, 422, 500, 502, 503} :
            f' = [f EXCEPT !.pc = "done",
                    !.resp = WithCors(HttpResponse(status, Str(<<"body">>),
                                          "content-type" :> Str(<<"application/json">>)),
                                      f.req.origin)]
       \/ f' = [f EXCEPT !.pc = "thrown"]
    /\ UNCHANGED <<rw, b, store, cl, ph, cmb, g, up, r2, nz>>

\* the requests: the Origin header is absent, empty, 'null' or an origin
FetchRequests ==
    {[method |-> me, path |-> pa, origin |-> o] :
        me \in {"GET", "POST", "OPTIONS"},
        pa \in {<<"api", "payloads">>, <<"api", "">>, <<"api", "nothing">>, <<"generate">>,
                <<"api">>, <<"generate", "x">>, <<"index.html">>, <<"">>},
        o \in {Null, Str(<<>>), Str(<<"null">>), Str(<<"https://a.example">>)}}

\* ------------------------------ POST /api/upload and /api/upload-generated

\* the highest value of Date.now()
MaxClock == 2

\* MIME_TO_EXTENSION[mimeType], nothing for a type it does not hold
GetExtensionFromMimeType(mimeType) ==
    IF mimeType.type # "image" THEN <<>>
    ELSE IF mimeType.subtype \in {"jpeg", "jpg"} THEN <<"jpg">>
    ELSE IF mimeType.subtype = "svg+xml" THEN <<"svg">>
    ELSE IF mimeType.subtype \in {"png", "gif", "webp", "heic", "heif", "avif", "bmp", "tiff"}
    THEN <<mimeType.subtype>>
    ELSE <<>>

\* the key an upload is stored under: 'uploaded-<timestamp>.<extension>' or
\* 'my-ai-time-travel-newspaper-<timestamp>-<randomId>.<extension>'; the
\* random part is a sequence, empty in a key without one
UploadKey(op, normalized, now, rand) ==
    LET originalExtension == GetExtensionFromFilename(normalized.filename)
        fromMime == GetExtensionFromMimeType(normalized.mimeType)
        extension == IF originalExtension # <<>> THEN originalExtension
                     ELSE IF fromMime # <<>> THEN fromMime
                     ELSE IF op = "upload" THEN <<"jpg">> ELSE <<"png">>
    IN [prefix |-> IF op = "upload" THEN "uploaded" ELSE "my-ai-time-travel-newspaper",
        timestamp |-> now,
        randomId |-> IF op = "upload" THEN <<>> ELSE <<rand>>,
        extension |-> extension]

NoUpload ==
    [pc |-> "idle", op |-> "", body |-> Undefined, normalized |-> Undefined,
     key |-> Undefined, resp |-> Undefined]

UploadDone(st, status, body) ==
    [st EXCEPT !.pc = "done", !.resp = JsonResponse(status, body)]

\* time passes
Tick ==
    /\ r2.now < MaxClock
    /\ r2' = [r2 EXCEPT !.now = @ + 1]
    /\ UNCHANGED <<rw, b, store, cl, ph, cmb, g, f, up, nz>>

\* the bodies: a form with the image entry (null when there is none), a
\* body that formData() cannot read
UploadBodies ==
    {[kind |-> "malformed"]} \cup {[kind |-> "form", image |-> v] : v \in
    {Null, Str(<<>>), Str(<<"Zm9v">>), Str(<<"!">>),
     Str(Stringify(Obj("content", Str(<<"data:", "text", "/", "html", ";base64,", "Zm9v">>)))),
     File(Mime("image", "png"), 1, <<"a", ".", "png">>),
     File(Mime("image", "png"), 1, <<"a">>),
     File(Mime("text", "plain"), 1, <<"a", ".", "txt">>),
     File(NoMime, 1, <<"a", ".", "PNG">>)}}

\* a request arrives: the handler up to its await of request.formData()
UploadReceive(c) ==
    /\ up[c].pc = "idle"
    /\ \E op \in {"upload", "upload-generated"}, body \in UploadBodies :
        up' = [up EXCEPT ![c] = [NoUpload EXCEPT !.pc = "form", !.op = op, !.body = body]]
    /\ UNCHANGED <<rw, b, store, cl, ph, cmb, g, f, r2, nz>>

\* formData() settles: the image entry is looked up and the normalizer
\* called
UploadForm(c) ==
    /\ up[c].pc = "form"
    /\ LET st == up[c]
       IN IF st.body.kind = "malformed"
          THEN up' = [up EXCEPT ![c] = UploadDone(st, 500, [error |-> "formData"])]
          ELSE IF Falsy(st.body.image)
          THEN up' = [up EXCEPT ![c] = UploadDone(st, 400, [error |-> "No image file provided"])]
          ELSE up' = [up EXCEPT ![c] = [st EXCEPT !.pc = "normalize"]]
    /\ UNCHANGED <<rw, b, store, cl, ph, cmb, g, f, r2, nz>>

\* the normalizer settles: the check of the MIME type, the key from the
\* clock and a draw, the put called
UploadNormalized(c) ==
    /\ up[c].pc = "normalize"
    /\ LET st == up[c]
           normalized == NormalizeImageInput(st.body.image)
       IN IF ~normalized.ok
          THEN /\ up' = [up EXCEPT ![c] = UploadDone(st, 400, [error |-> "Invalid image file"])]
               /\ r2' = r2
          ELSE IF ~IsImageMime(normalized.mimeType)
          THEN /\ up' = [up EXCEPT ![c] = UploadDone(st, 400, [error |-> "File must be an image"])]
               /\ r2' = r2
          ELSE /\ up' = [up EXCEPT ![c] =
                            [st EXCEPT !.pc = "put", !.normalized = normalized,
                                       !.key = UploadKey(st.op, normalized, r2.now,
                                                         r2.draws + 1)]]
               /\ r2' = IF st.op = "upload-generated"
                        THEN [r2 EXCEPT !.draws = @ + 1] ELSE r2
    /\ UNCHANGED <<rw, b, store, cl, ph, cmb, g, f, nz>>

\* env.R2_BUCKET.put settles: the object is stored under the key and the
\* 200 goes out, or the put throws into the catch of the handler
UploadPut(c) ==
    /\ up[c].pc = "put"
    /\ LET st == up[c]
       IN \/ /\ up' = [up EXCEPT ![c] = UploadDone(st, 200, [success |-> TRUE])]
             /\ r2' = [r2 EXCEPT !.keys = @ \cup {st.key},
                                 !.overwritten = @ \/ st.key \in r2.keys]
          \/ /\ up' = [up EXCEPT ![c] = UploadDone(st, 500, [error |-> "r2"])]
             /\ r2' = r2
    /\ UNCHANGED <<rw, b, store, cl, ph, cmb, g, f, nz>>

\* ----------------------------------------------------- specifications

vars == <<rw, b, store, cl, ph, cmb, g, f, up, r2, nz>>

\* ------------------------------------------- a stand-alone retryWithBackoff

\* no request to the payload routes, an empty table
NoPayloads ==
    /\ store = [k \in {} |-> <<>>]
    /\ cl = [c \in Clients |-> [pc |-> "idle"]]
    /\ ph = [generated |-> {}, written |-> {}, answered |-> [k \in {} |-> Null]]

\* no request in the fetch handler
NoFetching == f = NoFetch

\* no upload request, and the bucket with what the keys are made from: the
\* clock, the draws of Math.random() so far (a draw never repeats an
\* earlier one), the keys written and whether a put wrote over an object
NoUploads ==
    /\ up = [c \in Clients |-> NoUpload]
    /\ r2 = [now |-> 0, draws |-> 0, keys |-> {}, overwritten |-> FALSE]

\* no call of the normalizer on its own
NoNormalizing == nz = [pc |-> "none", input |-> Undefined, out |-> Undefined]

\* no request to /api/combine-images and none to /api/generate
NoImages ==
    /\ cmb = NoCombine
    /\ g = NoGenerate

InitRetry ==
    /\ \E m \in 0..MaxRetriesIn, d \in {1, DefaultBaseDelay}, k \in 0..MaxFails :
        rw = RetryCall(m, d, {k}, {Str(<<"v">>)})
    /\ b = NoBatch
    /\ NoPayloads
    /\ NoFetching
    /\ NoUploads
    /\ NoNormalizing
    /\ NoImages

SpecRetry == InitRetry /\ [][RetryEnter \/ RetryAttempt \/ RetryWake]_vars

\* ------------------------------------- one POST /api/generate-batch request

InitBatch ==
    /\ rw = NoRetryCall
    /\ \E req \in BatchRequests : b = [NoBatch EXCEPT !.pc = "start", !.req = req]
    /\ NoPayloads
    /\ NoFetching
    /\ NoUploads
    /\ NoNormalizing
    /\ NoImages

NextBatch ==
    \/ BatchReceive \/ BatchCall \/ BatchAfterCall \/ BatchPut \/ BatchWake
    \/ RetryEnter \/ RetryAttempt \/ RetryWake

SpecBatch == InitBatch /\ [][NextBatch]_vars

\* one batch request whose maxAttempts may be a string that is no number
InitBatchAny ==
    /\ rw = NoRetryCall
    /\ \E ps \in UNION {[1..n -> {Str(<<" ", "a", " ">>), Str(<<>>)}] : n \in 1..MaxPrompts},
          given \in {Undefined, Num(1), Num(2), Str(<<"x">>)} :
        b = [NoBatch EXCEPT !.pc = "start",
                            !.req = [contentType |-> "application/json",
                                     body |-> [kind |-> "object", prompts |-> ps,
                                               maxAttempts |-> given]]]
    /\ NoPayloads
    /\ NoFetching
    /\ NoUploads
    /\ NoNormalizing
    /\ NoImages

SpecBatchAny == InitBatchAny /\ [][NextBatch]_vars

\* a stand-alone call or a batch request, every invocation of the operation,
\* every put and every timer completing; the requests are those of InitBatch
\* whose prompts are a usable string or a number and whose maxAttempts is
\* absent or 2
SpecBatchFair ==
    /\ \/ InitRetry
       \/ /\ InitBatch
          /\ b.req.body.kind = "object" =>
                /\ b.req.body.maxAttempts \in {Undefined, Num(2)}
                /\ \A k \in 1..Len(b.req.body.prompts) :
                      b.req.body.prompts[k] \in {Str(<<" ", "a", " ">>), Num(7)}
    /\ [][NextBatch]_vars
    /\ WF_vars(NextBatch)

\* ------------------------------- clients of /api/payloads, a working storage

InitPayload ==
    /\ rw = NoRetryCall
    /\ b = NoBatch
    /\ NoPayloads
    /\ NoFetching
    /\ NoUploads
    /\ NoNormalizing
    /\ NoImages

NextPayload ==
    \E c \in Clients :
        \/ PayloadPostReceive(c) \/ PayloadStorePut(c, TRUE) \/ PayloadPostRespond(c)
        \/ PayloadGetReceive(c) \/ PayloadStoreGet(c, TRUE) \/ PayloadGetRespond(c)

SpecPayload == InitPayload /\ [][NextPayload]_vars

\* requests of one caller to the durable object itself
SpecStore == InitPayload /\ [][StoreFetch("c1")]_vars

\* the same with rows that the storage may damage
SpecPayloadCorrupt == InitPayload /\ [][NextPayload \/ StorageCorrupts]_vars

\* the same with SQL statements that may throw and a table that may have
\* failed to be created
NextPayloadFaulty ==
    \/ NextPayload
    \/ \E c \in Clients :
        \/ PayloadStorePut(c, FALSE) \/ PayloadStoreGet(c, FALSE)
        \/ PayloadStoreThrows(c)

SpecPayloadFaulty == InitPayload /\ [][NextPayloadFaulty]_vars

\* ------------------------------------------ one request to /api/combine-images

InitCombine ==
    /\ rw = NoRetryCall
    /\ b = NoBatch
    /\ NoPayloads
    /\ NoFetching
    /\ NoUploads
    /\ NoNormalizing
    /\ g = NoGenerate
    /\ \E req \in CombineRequests : cmb = [NoCombine EXCEPT !.pc = "start", !.req = req]

SpecCombine ==
    InitCombine /\ [][\/ CombineReceive \/ CombineFetch \/ CombineCall
                      \/ CombineAfterCall \/ CombinePut
                      \/ RetryEnter \/ RetryAttempt \/ RetryWake]_vars

\* ------------------------------------------------ one request to /api/generate

InitGenerate ==
    /\ rw = NoRetryCall
    /\ b = NoBatch
    /\ NoPayloads
    /\ NoFetching
    /\ NoUploads
    /\ NoNormalizing
    /\ cmb = NoCombine
    /\ \E req \in GenerateRequests : g = [NoGenerate EXCEPT !.pc = "start", !.req = req]

NextGenerate ==
    \/ GenerateReceive \/ GenerateFetch \/ GenerateCall \/ GenerateAfterCall
    \/ RetryEnter \/ RetryAttempt \/ RetryWake

SpecGenerate == InitGenerate /\ [][NextGenerate]_vars

\* ------------------------------------ one request in the fetch handler

InitFetch ==
    /\ rw = NoRetryCall
    /\ b = NoBatch
    /\ NoPayloads
    /\ NoUploads
    /\ NoNormalizing
    /\ NoImages
    /\ \E req \in FetchRequests : f = [NoFetch EXCEPT !.pc = "start", !.req = req]

SpecFetch == InitFetch /\ [][FetchReceive \/ FetchRespond]_vars

\* ----------------------------------------------- one call of the normalizer

InitNormalize ==
    /\ rw = NoRetryCall
    /\ b = NoBatch
    /\ NoPayloads
    /\ NoFetching
    /\ NoUploads
    /\ NoImages
    /\ \E v \in NormalizeInputs : nz = [pc |-> "start", input |-> v, out |-> Undefined]

SpecNormalize == InitNormalize /\ [][NormalizeCall]_vars

\* ------------------------------------------ two clients that upload

InitUpload ==
    /\ rw = NoRetryCall
    /\ b = NoBatch
    /\ NoPayloads
    /\ NoFetching
    /\ NoUploads
    /\ NoNormalizing
    /\ NoImages

NextUpload ==
    \/ Tick
    \/ \E c \in Clients :
        \/ UploadReceive(c)
        \/ UploadForm(c)
        \/ UploadNormalized(c)
        \/ UploadPut(c)

SpecUpload == InitUpload /\ [][NextUpload]_vars

\* ------------- one request to /api/generate, or two clients that upload

SpecIntake ==
    (InitGenerate \/ InitUpload) /\ [][NextGenerate \/ (g.pc = "none" /\ NextUpload)]_vars

\* ------------------------------- one request to any of the operations above

\* the operations share no state: either one request to a generation route
\* is handled, or the clients of the payload routes run
InitApi == InitBatch \/ InitCombine \/ InitGenerate \/ InitPayload

NextApi ==
    \/ BatchReceive \/ BatchCall \/ BatchAfterCall \/ BatchPut \/ BatchWake
    \/ CombineReceive \/ CombineFetch \/ CombineCall \/ CombineAfterCall \/ CombinePut
    \/ GenerateReceive \/ GenerateFetch \/ GenerateCall \/ GenerateAfterCall
    \/ RetryEnter \/ RetryAttempt \/ RetryWake
    \/ (b.pc = "none" /\ cmb.pc = "none" /\ g.pc = "none" /\ NextPayload)

SpecApi == InitApi /\ [][NextApi]_vars

\* the same with a document store that may fail
NextApiFaulty ==
    \/ NextApi
    \/ /\ b.pc = "none" /\ cmb.pc = "none" /\ g.pc = "none"
       /\ \E c \in Clients :
            \/ PayloadStorePut(c, FALSE) \/ PayloadStoreGet(c, FALSE)
            \/ PayloadStoreThrows(c)

SpecApiFaulty == InitApi /\ [][NextApiFaulty]_vars

\* ===================================================================== claims

\* ---- retryWithBackoff (SpecRetry)

\* the delays waited when the first k invocations failed
ExponentialDelays(baseDelay, k) == [j \in 1..k |-> baseDelay * Pow2(j - 1)]

\* C1: when the operation fails on its first k invocations and succeeds on
\* invocation k+1 <= maxAttempts, the call returns the result of invocation
\* k+1, having invoked the operation exactly k+1 times and waited exactly the
\* k delays baseDelay * 2^(j-1), j = 1..k; at no time are there more
\* invocations or delays than that
C1_SuccessAfterKFailures ==
    \A k \in 0..MaxFails :
        (rw.pc # "none" /\ rw.fails = {k} /\ k + 1 <= rw.maxRetries) =>
            /\ rw.calls <= k + 1
            /\ Len(rw.delays) <= k
            /\ rw.pc # "exhausted"
            /\ rw.pc = "success" =>
                /\ rw.result.n = k + 1
                /\ rw.result.val \in rw.vals
                /\ rw.calls = k + 1
                /\ rw.delays = ExponentialDelays(rw.baseDelay, k)

\* a call with maxAttempts = 4 that succeeded on its fourth invocation
C1_Witness ==
    /\ rw.pc = "success" /\ rw.maxRetries = 4 /\ rw.fails = {3} /\ rw.calls = 4
    /\ rw.delays = <<rw.baseDelay, 2 * rw.baseDelay, 4 * rw.baseDelay>>

\* C2: when the operation fails on every invocation and maxAttempts = m >= 1,
\* it is invoked exactly m times, exactly m-1 delays are waited, and the
\* error thrown to the caller is the error of the m-th invocation
C2_ExhaustionThrowsLastError ==
    (/\ rw.pc # "none" /\ rw.maxRetries >= 1
     /\ \A k \in rw.fails : k >= rw.maxRetries) =>
        /\ rw.calls <= rw.maxRetries
        /\ Len(rw.delays) <= rw.maxRetries - 1
        /\ rw.pc # "success"
        /\ rw.pc = "exhausted" =>
            /\ rw.calls = rw.maxRetries
            /\ Len(rw.delays) = rw.maxRetries - 1
            /\ rw.thrown = OpError(rw.maxRetries)

\* a call with maxAttempts = 3 that threw the error of the third invocation
C2_Witness ==
    /\ rw.pc = "exhausted" /\ rw.maxRetries = 3 /\ rw.calls = 3
    /\ Len(rw.delays) = 2 /\ rw.thrown = OpError(3)

\* ---- POST /api/generate-batch (SpecBatch)

\* the per-prompt loop has been entered, and it has finished
BatchInLoop == b.pc \in {"call", "put", "sleep", "done"} /\ Len(b.urls) > 0
BatchLoopDone == b.pc = "done" /\ Len(b.urls) > 0
\* upstream invocations and exponential delays made so far for the prompt of
\* the current index, the retryWithBackoff call in progress included
PromptCalls == b.cur.calls + rw.calls
PromptExpWaits == b.cur.expWaits + Len(rw.delays)
\* the linear delays waited so far are 500 * k for k = 1, 2, ...
LinearWaitsOk ==
    /\ b.cur.linWaits = [k \in 1..Len(b.cur.linWaits) |-> 500 * k]
    /\ Len(b.cur.linWaits) <= b.maxAttempts - 1
    /\ Len(b.cur.linWaits) = IF b.pc = "sleep" THEN b.attempt
                             ELSE MaxOf(b.attempt - 1, 0)

\* C3 as stated: a prompt gets at most maxAttempts upstream generation calls
\* and only the linear waits 500 * k, no exponential delay
C3_Original ==
    BatchInLoop =>
        /\ PromptCalls <= b.maxAttempts
        /\ PromptExpWaits = 0
        /\ LinearWaitsOk

\* C3 amended: a prompt gets at most maxAttempts attempts, each of them one
\* retryWithBackoff call with up to 3 upstream invocations and the
\* exponential delays 1000 and 2000 ms between them (at most 3 * maxAttempts
\* invocations for the prompt); between the attempts the waits are the
\* linear ones, 500 * k after the k-th failed attempt, none after the last
C3_NestedRetries ==
    BatchInLoop =>
        /\ b.attempt <= b.maxAttempts
        /\ \A k \in 1..Len(b.attempts) : b.attempts[k] <= b.maxAttempts
        /\ PromptCalls <= 3 * b.attempt
        /\ PromptExpWaits <= 2 * b.attempt
        /\ PromptExpWaits <= PromptCalls
        /\ rw.pc # "none" =>
            /\ Len(rw.delays) <= 2
            /\ rw.delays = SubSeq(<<1000, 2000>>, 1, Len(rw.delays))
        /\ LinearWaitsOk

\* the third attempt for a prompt is about to start after its second linear
\* wait, and exponential delays were waited inside the earlier attempts
C3_Witness ==
    /\ b.pc = "sleep" /\ b.attempt = 2 /\ b.maxAttempts = 3
    /\ b.cur.linWaits = <<500, 1000>>
    /\ b.cur.expWaits = 4 /\ b.cur.calls = 6

\* the index has an object in storage
Stored(i) == b.stored[i]
StoredUrls == [i \in 1..Len(b.urls) |-> IF Stored(i) THEN PublicUrl(i) ELSE Null]

\* the response of a finished loop but for its errors list
BatchResponseShape ==
    /\ b.resp.status \in {200, 502}
    /\ b.resp.status = 200 <=> \A i \in 1..Len(b.urls) : Stored(i)
    /\ b.resp.status = 200 =>
        b.resp.body = [success |-> TRUE, urls |-> StoredUrls]
    /\ b.resp.status = 502 =>
        /\ b.resp.body.success = FALSE
        /\ b.resp.body.urls = SelectSeq(StoredUrls, LAMBDA u : u # Null)
        /\ Len(b.resp.body.errors) = Len(b.req.body.prompts)

\* C4 as stated: the 502 response's errors hold, for each prompt position,
\* that prompt's last-seen error message
C4_Original ==
    BatchLoopDone =>
        /\ BatchResponseShape
        /\ b.resp.status = 502 =>
            \A i \in 1..Len(b.urls) : b.resp.body.errors[i] = b.lastSeen[i]

\* C4 amended: the response is 200 {success: true, urls} iff every index
\* ended with a stored URL; otherwise 502 with success false, the stored
\* URLs in prompt order without the nulls, and errors with one entry per
\* prompt position: null for an index with a stored URL (its earlier errors
\* are erased), the last-seen error message for every other index
C4_BatchResponse ==
    BatchLoopDone =>
        /\ BatchResponseShape
        /\ b.resp.status = 502 =>
            \A i \in 1..Len(b.urls) :
                b.resp.body.errors[i] = IF Stored(i) THEN Null ELSE b.lastSeen[i]

\* a 502 whose first prompt succeeded on a second attempt and whose second
\* prompt was exhausted
C4_Witness ==
    /\ BatchLoopDone /\ b.resp.status = 502 /\ Len(b.urls) = 2
    /\ Stored(1) /\ b.attempts[1] = 2 /\ b.lastSeen[1] # Null
    /\ ~Stored(2) /\ b.resp.body.urls = <<PublicUrl(1)>>
    /\ b.resp.body.errors[2] = b.lastSeen[2] /\ b.lastSeen[2] # Null

\* the prompt is not a string or is empty after trimming
InvalidPrompt(p) == p.kind # "string" \/ Trim(p.s) = <<>>

\* C5: an invalid prompt is marked 'Invalid prompt at index i' and gets no
\* upstream call, no storage write and no delay; every other prompt is
\* processed until it is stored or has had maxAttempts attempts
C5_InvalidPromptSkipped ==
    BatchInLoop =>
        \A i \in 1..Len(b.urls) :
            IF InvalidPrompt(b.req.body.prompts[i])
            THEN /\ ~b.touched[i] /\ ~b.stored[i]
                 /\ b.attempts[i] = 0 /\ b.urls[i] = Null
                 /\ (i < b.i \/ b.pc = "done") =>
                        b.errors[i] = InvalidPromptMsg(i)
            ELSE b.pc = "done" =>
                    /\ b.touched[i]
                    /\ Stored(i) \/ b.attempts[i] = b.maxAttempts

\* a blank first prompt was skipped and the second prompt used up its two
\* attempts
C5_Witness ==
    /\ BatchLoopDone /\ Len(b.urls) = 2 /\ b.maxAttempts = 2
    /\ b.req.body.prompts[1] = Str(<<" ">>)
    /\ b.errors[1] = InvalidPromptMsg(1) /\ ~b.touched[1]
    /\ b.attempts[2] = 2 /\ ~Stored(2)

LaterGet(c) == cl[c].pc = "done" /\ cl[c].op = "GET" /\ cl[c].late

\* C7: once POST /api/payloads has answered 201 with id x for payload p,
\* every later GET /api/payloads/x answers 200 with {id: x, payload: p}
C7_PayloadRoundTrip ==
    \A c \in Clients :
        LaterGet(c) =>
            /\ cl[c].status = 200
            /\ cl[c].body = [id |-> cl[c].tail,
                             payload |-> ph.answered[cl[c].tail[1]]]

\* a later GET has been answered with the object posted under its id, while
\* another id holds another payload
C7_Witness ==
    \E c \in Clients :
        /\ LaterGet(c)
        /\ cl[c].status = 200
        /\ cl[c].body.payload = Obj("foo", Str(<<"bar">>))
        /\ \E x \in DOMAIN ph.answered : ph.answered[x] = Null

\* nothing was ever stored under the id of the path
NeverStored(tail) == ~(Len(tail) = 1 /\ tail[1] \in ph.written)

\* C8: GET /api/payloads/{id} for an id under which nothing was ever stored
\* answers 404, a stored record whose data cannot be parsed answers 500, and
\* the two are never confused
C8_MissingOrCorrupt ==
    \A c \in Clients :
        (cl[c].pc = "done" /\ cl[c].op = "GET" /\ cl[c].tail # <<EmptySegment>>) =>
            /\ NeverStored(cl[c].tail) => cl[c].status = 404
            /\ cl[c].saw = "corrupt" => cl[c].status = 500
            /\ cl[c].saw = "missing" => cl[c].status # 500
            /\ cl[c].saw = "corrupt" => cl[c].status # 404

\* ------------------------------------------------------------ combine-images

\* the images the request resolves: its uploaded files with content and the
\* images fetched from its URLs
ResolvedImages ==
    cmb.fetched +
    (IF cmb.req.contentType = "multipart/form-data" /\ cmb.req.body.kind = "form"
     THEN Len(TentativeFiles(cmb.req.body.files)) ELSE 0)

\* C9: POST /api/combine-images answers 400 whenever fewer than two images
\* can be resolved from the request, and then makes no upstream generation
\* call and no storage write
C9_TooFewImages ==
    (cmb.pc = "done" /\ ResolvedImages < 2) =>
        /\ cmb.resp.status = 400
        /\ cmb.calls = 0
        /\ cmb.puts = 0

\* --------------------------------------------------------- input validation

Is4xx(status) == status \in 400..499

\* the request to /api/generate-batch has a wrong content type, a body that
\* is no JSON, or no non-empty prompts list
BatchInputError ==
    \/ b.req.contentType # "application/json"
    \/ b.req.body.kind # "object"
    \/ b.req.body.prompts = <<>>

\* the request to /api/combine-images has a wrong content type, a body that
\* cannot be read, fewer than two images, or an upload that is no image
CombineInputError ==
    \/ cmb.req.contentType \notin {"application/json", "multipart/form-data"}
    \/ cmb.req.body.kind \in {"malformed", "null", "urlsNotArray"}
    \/ /\ cmb.req.body.kind = "object"
       /\ Len(NormalizedUrls(cmb.req.body.imageUrls)) < 2
    \/ /\ cmb.req.body.kind = "form"
       /\ \/ Len(TentativeFiles(cmb.req.body.files))
                + Len(NormalizedUrls(cmb.req.body.urls)) < 2
          \/ \E k \in 1..Len(cmb.files) : ~IsImageMime(cmb.files[k].type)

\* the request to /api/generate has a wrong content type, a body that cannot
\* be read, no image, or an image whose MIME type is no image type
GenerateInputError ==
    \/ g.req.contentType \notin {"application/json", "multipart/form-data"}
    \/ g.req.body.kind \in {"malformed", "null"}
    \/ g.req.body.kind = "object" /\ Falsy(g.req.body.imageUrl)
    \/ /\ g.req.body.kind = "form"
       /\ \/ Falsy(g.req.body.image)
          \/ ~NormalizeImageInput(g.req.body.image).ok
          \/ ~IsImageMime(NormalizeImageInput(g.req.body.image).mimeType)

\* C10: on every API operation an input validation error (missing field,
\* wrong content type, non-image MIME, malformed JSON body, too few images)
\* produces a 4xx response and no upstream generation call
C10_ValidationErrors ==
    /\ (b.pc = "done" /\ BatchInputError) =>
            /\ Is4xx(b.resp.status)
            /\ \A k \in 1..Len(b.touched) : ~b.touched[k]
    /\ (cmb.pc = "done" /\ CombineInputError) =>
            /\ Is4xx(cmb.resp.status)
            /\ cmb.calls = 0
    /\ (g.pc = "done" /\ GenerateInputError) =>
            /\ Is4xx(g.resp.status)
            /\ g.calls = 0
    /\ \A c \in Clients :
        (cl[c].pc = "done" /\ cl[c].op = "POST" /\ cl[c].tail = <<>>) =>
            Is4xx(cl[c].status)

\* ------------------------------------------------------------- /api/generate

\* the response of the catch has the four fields, and its error is a generic
\* text, not the message of the error
GenericErrorBody(body) ==
    /\ DOMAIN body = {"error", "details", "timestamp", "requestInfo"}
    /\ body.error # body.details

\* C11: in POST /api/generate, after the upstream call returns, a response
\* with no candidates yields 503, one whose first candidate is null or has no
\* content or no parts yields 502, one whose parts hold no inline image data
\* yields 422, each with a generic error message plus details, timestamp and
\* requestInfo
C11_UpstreamShapeStatus ==
    (g.pc = "done" /\ g.got \notin {"none", "error", "image"}) =>
        /\ g.got = "nocandidates" => g.resp.status = 503
        /\ g.got \in {"nullcandidate", "nocontent", "noparts"} => g.resp.status = 502
        /\ g.got = "noimage" => g.resp.status = 422
        /\ GenericErrorBody(g.resp.body)

\* a response without parts, after two failed invocations, was answered 502
C11_Witness ==
    /\ g.pc = "done"
    /\ g.got = "noparts"
    /\ g.calls = 3
    /\ g.resp.status = 502

\* --------------------------------------------------- no candidates returned

\* prompt i of the batch ended on an attempt that failed for a response
\* without candidates
EndedWithoutCandidates(i) ==
    /\ ~b.stored[i]
    /\ b.lastSeen[i] # Null
    /\ b.lastSeen[i].kind = "attempt"
    /\ b.lastSeen[i].msg = Str(<<"No candidates returned">>)

\* C12: in every generation path an upstream response without candidates is
\* retried under the path's retry policy until the attempt ceiling, so a
\* request or prompt that ends on it has used all its attempts: three
\* upstream calls in /api/generate and /api/combine-images, maxAttempts
\* attempts in /api/generate-batch
C12_NoCandidatesRetried ==
    /\ (g.pc = "done" /\ g.got = "nocandidates") => g.calls = 3
    /\ (cmb.pc = "done" /\ cmb.got = "nocandidates") => cmb.calls = 3
    /\ b.pc = "done" =>
        \A i \in 1..Len(b.lastSeen) :
            EndedWithoutCandidates(i) => b.lastSeen[i].attempt = b.maxAttempts

\* ------------------------------------------------------ failing collaborators

\* a JSON response with a status
Structured(resp) == resp # Undefined /\ resp.status \in 200..599

\* C13: whatever collaborator fails (upstream API, object storage, document
\* store, body parsing), every request ends with a structured JSON response
\* and no exception escapes the worker's fetch handler
C13_NoEscapingException ==
    /\ b.pc = "done" => Structured(b.resp)
    /\ cmb.pc = "done" => Structured(cmb.resp)
    /\ g.pc = "done" => Structured(g.resp)
    /\ \A c \in Clients :
        /\ cl[c].pc # "thrown"
        /\ cl[c].pc = "done" => cl[c].status \in 200..599

\* ------------------------------------------------------------------- CORS

\* the worker answered the request, and with the Origin header of the
\* request as Access-Control-Allow-Origin, '*' for the origins in none
AllowOriginIs(none) ==
    /\ f.pc = "done"
    /\ f.resp.headers[AllowOrigin] =
        (IF f.req.origin \in none THEN Str(<<"*">>) ELSE f.req.origin)

\* the preflight was answered with an empty 204 and no handler ran
PreflightIsEmpty ==
    /\ f.pc = "done"
    /\ f.resp.status = 204
    /\ f.resp.body = Null
    /\ ~f.ran

\* C14: every response to a request of an API path carries
\* Access-Control-Allow-Origin equal to the Origin header of the request,
\* '*' when the header is absent or the literal 'null', whatever the
\* status; an OPTIONS request to such a path gets an empty 204 without any
\* handler run
C14_CorsOnEveryResponse ==
    (f.pc \in {"done", "thrown"} /\ IsApiPath(f.req.path)) =>
        /\ AllowOriginIs({Null, Str(<<"null">>)})
        /\ f.req.method = "OPTIONS" => PreflightIsEmpty

\* ------------------------------------------------- MIME types of the images

\* the normalizer makes of the value an image whose MIME type is no image/*
NotAnImage(v) ==
    /\ ~Falsy(v)
    /\ NormalizeImageInput(v).ok
    /\ ~IsImageMime(NormalizeImageInput(v).mimeType)

\* the request to /api/generate had such an image in its form: no call of
\* the upstream API is made and it ends with 400
GenerateRefusesNotAnImage ==
    (/\ g.pc \notin {"none", "start"}
     /\ g.req.contentType = "multipart/form-data"
     /\ g.req.body.kind = "form"
     /\ NotAnImage(g.req.body.image)) =>
        /\ rw.pc = "none"
        /\ g.calls = 0
        /\ g.pc = "done" => g.resp.status = 400

\* the upload of c had such an image in its form: it ended with 400 and
\* without a put
UploadRefusesNotAnImage(c) ==
    (/\ up[c].pc \in {"put", "done"}
     /\ up[c].body.kind = "form"
     /\ NotAnImage(up[c].body.image)) =>
        /\ up[c].pc = "done"
        /\ up[c].resp.status = 400
        /\ up[c].key = Undefined

\* C15: in /api/upload, /api/upload-generated and /api/generate, a
\* normalized image whose MIME type does not start with 'image/' is never
\* written to object storage and never sent to the upstream API: the request
\* ends with a 400
C15_OnlyImagesAccepted ==
    /\ GenerateRefusesNotAnImage
    /\ \A c \in Clients : UploadRefusesNotAnImage(c)

\* ------------------------------------------------------- the normalizer

\* a text that is base64 or a data URL of base64, and not empty
IsImageText(s) ==
    LET e == ExtractBase64AndMime(Trim(s))
    IN e.base64 # <<>> /\ IsBase64(e.base64)

\* a string in braces
IsBraced(v) ==
    /\ v.kind = "string"
    /\ Trim(v.s) # <<>>
    /\ Head(Trim(v.s)) = "{"
    /\ Trim(v.s)[Len(Trim(v.s))] = "}"

RECURSIVE SupportedShape(_)
\* the supported shapes: a blob, a base64 or data-URL string, an object with
\* such a string as content, an object with a supported image field, the
\* JSON text of such an object
SupportedShape(v) ==
    IF v.kind = "file" THEN TRUE
    ELSE IF IsBraced(v)
    THEN Parse(Trim(v.s)) # ParseError /\ SupportedShape(Parse(Trim(v.s)))
    ELSE IF v.kind = "string" THEN IsImageText(v.s)
    ELSE IF v.kind = "object" /\ v.key = "image" THEN SupportedShape(v.val)
    ELSE IF v.kind = "object" /\ v.key = "content"
    THEN v.val.kind = "string" /\ IsImageText(v.val.s)
    ELSE FALSE

\* C16: for every input of a supported shape, normalizeImageInput returns an
\* image whose bytes are not empty and whose MIME type starts with 'image/'
C16_SupportedShapesGiveImages ==
    (nz.pc = "done" /\ SupportedShape(nz.input)) =>
        /\ nz.out.ok
        /\ nz.out.size > 0
        /\ IsImageMime(nz.out.mimeType)

RECURSIVE ErrorExpected(_)
\* the error an unrecognized input is to fail with, through image fields
\* and JSON texts; the empty message for any other input
ErrorExpected(v) ==
    IF v.kind \in {"null", "undefined"} THEN "No image input provided"
    ELSE IF v.kind \in {"number", "boolean"} THEN "Unsupported image input format"
    ELSE IF v.kind = "file" THEN ""
    ELSE IF IsBraced(v)
    THEN IF Parse(Trim(v.s)) = ParseError THEN "" ELSE ErrorExpected(Parse(Trim(v.s)))
    ELSE IF v.kind = "string" THEN ""
    ELSE IF v.key = "image" THEN ErrorExpected(v.val)
    ELSE IF v.key = "content" /\ v.val.kind = "string" THEN ""
    ELSE "Unsupported image input format"

\* an unrecognized input fails with the error of its kind
UnrecognizedFails ==
    (nz.pc = "done" /\ ErrorExpected(nz.input) # "") =>
        /\ ~nz.out.ok
        /\ nz.out.error = ErrorExpected(nz.input)

\* the input is a text in braces that is no JSON
BracedNoJson == IsBraced(nz.input) /\ Parse(Trim(nz.input.s)) = ParseError

\* C17 as stated: an unrecognized input fails with its error, and a text in
\* braces that is no JSON is not an error
C17_Original ==
    /\ UnrecognizedFails
    /\ (nz.pc = "done" /\ BracedNoJson) => nz.out.ok

\* C17: normalizeImageInput fails with 'No image input provided' for null
\* and undefined and with 'Unsupported image input format' for a number, a
\* boolean and an object without an image field and without a string
\* content, also behind image fields and in a JSON text; a text in braces
\* that is no JSON raises no JSON error and goes to the base64 branch, where
\* atob refuses it
C17_UnrecognizedInputsFail ==
    /\ UnrecognizedFails
    /\ (nz.pc = "done" /\ BracedNoJson) =>
        /\ nz.out = NormalizeBase64(Trim(nz.input.s))
        /\ ~nz.out.ok
        /\ nz.out.error = "InvalidCharacterError"

\* the JSON text of an object whose image field is a number was refused
C17_Witness ==
    /\ nz.pc = "done"
    /\ nz.input = Str(Stringify(Obj("image", Num(7))))
    /\ ~nz.out.ok
    /\ nz.out.error = "Unsupported image input format"

\* ------------------------------------------------------- object storage

\* C18: no two successful writes to object storage use the same key, so no
\* stored object is overwritten
C18_KeysNeverReused == ~r2.overwritten

\* the last attempt of a prompt of the batch request failed in its put
BatchPutFailed ==
    \E k \in 1..Len(b.errors) :
        /\ b.errors[k] # Null
        /\ b.errors[k].kind = "attempt"
        /\ b.errors[k].msg = [kind |-> "r2"]

\* C19: a failed write to object storage is not retried: after a put has
\* failed, the request makes no further upstream call and no further put and
\* ends with an error response
C19_FailedPutNotRetried ==
    /\ BatchPutFailed =>
        /\ rw.pc = "none"
        /\ b.pc # "put"
        /\ b.pc = "done" => b.resp.status >= 400
    /\ (cmb.pc = "done" /\ cmb.resp.status = 502 /\ cmb.resp.body.error.kind = "r2") =>
        /\ rw.pc = "none"
        /\ cmb.puts = 0

\* ------------------------------------ the transitions of retryWithBackoff

\* the number of the attempt a call is in, counted from 1
AttemptNumber(r) == r.attempt + 1

\* one step of a call from r to s is a transition of the state machine,
\* the delay after a failed attempt being part of that attempt; a call
\* that may make no attempt goes from Idle to Exhausted when direct allows it
RetryTransition(r, s, direct) ==
    \/ /\ r.pc = "idle" /\ s.pc = "attempting"
       /\ AttemptNumber(s) = 1 /\ s.calls = 0
    \/ /\ r.pc = "attempting" /\ s.pc = "success"
       /\ s.calls = r.calls + 1 /\ s.delays = r.delays
    \/ /\ r.pc = "attempting" /\ s.pc = "waiting"
       /\ AttemptNumber(r) < r.maxRetries
       /\ AttemptNumber(s) = AttemptNumber(r)
       /\ s.calls = r.calls + 1 /\ Len(s.delays) = Len(r.delays) + 1
    \/ /\ r.pc = "waiting" /\ s.pc = "attempting"
       /\ AttemptNumber(s) = AttemptNumber(r) + 1
       /\ s.calls = r.calls /\ s.delays = r.delays
    \/ /\ r.pc = "attempting" /\ s.pc = "exhausted"
       /\ AttemptNumber(r) = r.maxRetries
       /\ s.calls = r.calls + 1 /\ s.delays = r.delays
    \/ /\ direct
       /\ r.pc = "idle" /\ s.pc = "exhausted"
       /\ r.maxRetries <= 0
       /\ s.calls = 0 /\ s.delays = <<>>

\* a step of the call is a transition, it leaves Success and Exhausted
\* alone, and the attempt number stays within maxAttempts
RetrySteps(direct) ==
    /\ rw' # rw => RetryTransition(rw, rw', direct)
    /\ rw.pc \in {"success", "exhausted"} => rw' = rw
    /\ rw'.pc \in {"attempting", "waiting"} => AttemptNumber(rw') <= rw'.maxRetries
    /\ rw'.calls <= MaxOf(rw'.maxRetries, 0)

C21_Terminates ==
    /\ (rw.pc = "idle") ~> RetryDone
    /\ (b.pc = "start") ~> (b.pc = "done")

\* a batch request got its 502 after two prompts had used up two attempts
\* each
C21_Witness ==
    /\ b.pc = "done" /\ b.resp.status = 502
    /\ Len(b.urls) = 2 /\ b.maxAttempts = 2
    /\ b.attempts[1] = 2 /\ b.attempts[2] = 2

\* ------------------------------------- the prompts of a batch, one by one

\* the loop is through with index k: the prompt was marked invalid without an
\* attempt, it has its stored URL, or its attempts are used up, all
\* maxAttempts of them, and the error of the last one is recorded
PromptSettled(k) ==
    IF InvalidPrompt(b.req.body.prompts[k])
    THEN b.attempts[k] = 0 /\ b.errors[k] = InvalidPromptMsg(k)
    ELSE \/ Stored(k) /\ b.attempts[k] \in 1..b.maxAttempts
         \/ /\ ~Stored(k)
            /\ b.attempts[k] = b.maxAttempts
            /\ b.errors[k] # Null
            /\ b.errors[k].kind = "attempt"
            /\ b.errors[k].attempt = b.maxAttempts
            /\ b.errors[k].of = b.maxAttempts

\* C22: a prompt whose attempts are used up does not stop the loop: whatever
\* failed for the earlier prompts, every index is settled (stored, exhausted
\* or marked invalid) when the response is produced, every index before the
\* current one is settled while the loop runs, and the budget of every index
\* is the request's maxAttempts, counted from zero for each index
C22_ExhaustionDoesNotStopLoop ==
    BatchInLoop =>
        /\ b.maxAttempts = ClampAttempts(b.req.body.maxAttempts)
        /\ b.pc = "done" =>
            /\ b.i = Len(b.urls) + 1
            /\ \A k \in 1..Len(b.urls) : PromptSettled(k)
        /\ b.pc # "done" =>
            /\ b.i \in 1..Len(b.urls)
            /\ b.attempt = b.attempts[b.i]
            /\ \A k \in 1..(b.i - 1) : PromptSettled(k)

\* the first prompt used up its two attempts and the second one was stored on
\* its second attempt
C22_Witness ==
    /\ BatchLoopDone /\ Len(b.urls) = 2 /\ b.maxAttempts = 2
    /\ ~InvalidPrompt(b.req.body.prompts[1])
    /\ ~Stored(1) /\ b.attempts[1] = 2
    /\ Stored(2) /\ b.attempts[2] = 2

\* C23: one request has at most one upstream generation call in flight, the
\* handler waiting for it at the current index, and the prompts are taken in
\* list order: while the loop is at index i nothing has been done for a later
\* index, and every earlier index is stored, exhausted or marked invalid
C23_OneCallInListOrder ==
    BatchInLoop =>
        /\ rw.pc # "none" => b.pc = "call" /\ b.attempts[b.i] = b.attempt
        /\ b.pc # "done" =>
            \A k \in 1..Len(b.urls) :
                /\ k > b.i =>
                    /\ b.attempts[k] = 0 /\ ~b.touched[k]
                    /\ b.urls[k] = Null /\ b.errors[k] = Null
                /\ (k < b.i /\ b.attempts[b.i] > 0) => PromptSettled(k)

\* the first attempt for the second prompt is in flight after the first
\* prompt has used up its two attempts
C23_Witness ==
    /\ b.pc = "call" /\ rw.pc = "attempting" /\ rw.calls = 0
    /\ b.i = 2 /\ b.attempts[2] = 1 /\ b.maxAttempts = 2
    /\ ~Stored(1) /\ b.attempts[1] = 2

\* C28: once an index has its stored URL nothing more is done for it: the
\* loop has left the index, so that every later upstream call, put and delay
\* is for a later index, its attempt count stays, and its URL stays the one
\* of its only stored object, with a null error
C28_StoredIndexLeftAlone ==
    [][\A k \in 1..Len(b.urls) :
            Stored(k) =>
                /\ b.urls[k] = PublicUrl(k)
                /\ b.pc # "done" => b.i > k
                /\ b'.pc # "done" => b'.i > k
                /\ b'.stored[k]
                /\ b'.urls[k] = b.urls[k]
                /\ b'.errors[k] = Null
                /\ b'.attempts[k] = b.attempts[k]]_vars

\* the first prompt was stored on the first of its three attempts and a call
\* for the second prompt is in flight
C28_Witness ==
    /\ b.pc = "call" /\ rw.pc = "attempting"
    /\ b.i = 2 /\ b.maxAttempts = 3
    /\ Stored(1) /\ b.attempts[1] = 1

\* ------------------------------------ the MIME type of a content object

\* a lookup that takes the header's name in any letter case
GetHeaderValueAnyCase(headers, header) ==
    IF headers.kind # "object" THEN Undefined
    ELSE LET value == IF ToLowerCase(headers.key) = ToLowerCase(header)
                      THEN headers.val ELSE Undefined
         IN IF value.kind = "array"
            THEN IF value.items # <<>> /\ value.items[1].kind = "string"
                 THEN value.items[1] ELSE Undefined
            ELSE IF value.kind = "string" THEN value ELSE Undefined

\* the MIME type the priority order gives a content object: its mimeType
\* field when that is a string and not empty, else the Content-Type value of
\* its headers, the header's name in any letter case, else the MIME of a
\* data-URL content, else the one guessed from the filename, else image/jpeg
ContentMimeExpected(record) ==
    LET given == Field(record, "mimeType")
        name == Field(record, "filename")
    IN OrElse(AsMime(given),
       OrElse(AsMime(GetHeaderValueAnyCase(Field(record, "headers"), "Content-Type")),
       OrElse(ExtractBase64AndMime(record.val.s).mimeTypeHint,
       OrElse(IF name.kind = "string" THEN GuessMimeTypeFromFilename(name.s)
              ELSE NoMime,
              Mime("image", "jpeg")))))

\* C24: for an object with a string content field the MIME type returned is
\* the first available of the mimeType field, the Content-Type header looked
\* up in any letter case, the data-URL MIME, the filename guess, image/jpeg
C24_ContentMimePriority ==
    (/\ nz.pc = "done"
     /\ nz.input.kind = "object"
     /\ nz.input.key = "content"
     /\ nz.input.val.kind = "string"
     /\ nz.out.ok) =>
        nz.out.mimeType = ContentMimeExpected(nz.input)

\* --------------------------------------- the MIME type of an untyped blob

\* the extensions of the extension table
TableExtensions ==
    {"jpg", "jpeg", "png", "gif", "webp", "heic", "heif", "avif", "bmp", "svg",
     "tif", "tiff"}

\* the input is a blob that declares no MIME type
UntypedBlob == nz.input.kind = "file" /\ nz.input.type = NoMime

\* C25: for a blob that declares no MIME type the extension is the
\* lower-cased text after the last '.' of the filename, none for a name
\* without a dot or ending with a dot, and the MIME type returned is the one
\* the extension table has for it ('photo.HEIC' gives image/heic), image/jpeg
\* when there is no extension or the table does not have it
C25_UntypedBlobMime ==
    (nz.pc = "done" /\ UntypedBlob) =>
        LET name == nz.input.name
            ext == IF name = <<>> \/ name[Len(name)] = "." \/ \A k \in 1..Len(name) : name[k] # "."
                   THEN ""
                   ELSE ToLowerCase(name[Len(name)])
        IN /\ nz.out.ok
           /\ nz.out.mimeType = IF ext \in TableExtensions THEN ExtensionToMime(ext)
                                ELSE Mime("image", "jpeg")
           /\ name = <<"a", ".", "HEIC">> => nz.out.mimeType = Mime("image", "heic")

\* ------------------------------------------------- the PUT of the store

\* the last request to the durable object, a PUT
LastPut == cl["c1"]

\* C26: a PUT to the PayloadStore is an upsert keyed by the record id: after
\* a PUT answered ok a GET of the id returns the data put, whether or not
\* the id had a row, and the row of every other id is as before; a PUT
\* answered 400 or 500 leaves every row as it was
C26_PutIsUpsert ==
    (LastPut.pc = "done" /\ LastPut.op = "PUT") =>
        IF LastPut.stub.status = 200
        THEN LET id == RecordIdOf(LastPut.tail).v
             IN /\ StoreGet(store, LastPut.tail, TRUE)
                        = StubResponse(200, Stringify(Parse(LastPut.text)))
                /\ DOMAIN store = DOMAIN LastPut.before \cup {id}
                /\ \A k \in DOMAIN LastPut.before \ {id} : store[k] = LastPut.before[k]
        ELSE /\ LastPut.stub.status \in {400, 500}
             /\ store = LastPut.before

\* a PUT has replaced the data of an id that had a row while another id
\* keeps its row
C26_Witness ==
    /\ LastPut.pc = "done" /\ LastPut.op = "PUT" /\ LastPut.stub.status = 200
    /\ \E id \in DOMAIN LastPut.before :
        /\ RecordIdOf(LastPut.tail) = Num(id)
        /\ LastPut.before[id] # store[id]
        /\ \E k \in DOMAIN store \ {id} : store[k] = LastPut.before[k]

\* ------------------------------------------------ two POSTs at a time

\* the client's POST has its id: it waits for the store, has the store's
\* answer, or has been answered 201
PostWithId(c) ==
    /\ cl[c].pc \in {"put", "putdone", "done"}
    /\ cl[c].op = "POST"
    /\ cl[c].pc = "done" => cl[c].status = 201

\* C27: two POST /api/payloads requests handled at the same time, their
\* steps interleaved in any way, get distinct ids, the store answers ok to
\* both, both are answered 201, and a GET of either id finds the payload of
\* the request that was given the id
C27_ConcurrentPosts ==
    /\ \A c, d \in Clients :
            (c # d /\ PostWithId(c) /\ PostWithId(d)) => cl[c].tail # cl[d].tail
    /\ \A c \in Clients :
        /\ (cl[c].pc = "putdone" /\ cl[c].op = "POST") => cl[c].stub.status = 200
        /\ (cl[c].pc = "done" /\ cl[c].op = "POST") => cl[c].status \in {201, 400}
        /\ (cl[c].pc = "done" /\ cl[c].op = "POST" /\ cl[c].status = 201) =>
            /\ cl[c].body.id = cl[c].tail
            /\ StoreGet(store, cl[c].tail, TRUE)
                    = StubResponse(200, Stringify(cl[c].body.payload))

\* both requests are in progress, each with the store's answer to its PUT
\* and not yet answered, for different payloads
C27_Witness ==
    /\ \A c \in Clients : cl[c].pc = "putdone" /\ cl[c].op = "POST"
    /\ cl["c1"].payload # cl["c2"].payload
    /\ cl["c1"].tail # cl["c2"].tail

\* --------------------------------------------- the id a GET answers with

\* C30: a 200 of GET /api/payloads/{id} returns the payload stored under
\* exactly the id it reports, for every path, also one whose id has a '/':
\* the id of the record read is the id of the response
C30_GetReportsRecordRead ==
    \A c \in Clients :
        (cl[c].pc = "done" /\ cl[c].op = "GET" /\ cl[c].status = 200) =>
            /\ cl[c].body.id = cl[c].tail
            /\ cl[c].body.id = <<RecordIdOf(cl[c].tail).v>>

\* --------------------------------------- urls and errors of the response

\* C29: in the 200 or 502 response of the batch, for every index exactly one
\* of urls[i] and errors[i] is not null: a stored index has its URL and a
\* null error, any other index a null URL and an error
C29_UrlOrError ==
    BatchLoopDone =>
        \A i \in 1..Len(b.urls) :
            /\ (b.urls[i] = Null) # (b.errors[i] = Null)
            /\ Stored(i) => b.urls[i] = PublicUrl(i) /\ b.errors[i] = Null
            /\ ~Stored(i) => b.urls[i] = Null /\ b.errors[i] # Null

====
